---- MODULE Spec2Model ----
(***************************************************************************)
(* HOPI: R-tree spatial index (insert, remove, split, condense, queries),  *)
(* the Exhaustive reference index and the RCB partitioner.                 *)
(*                                                                         *)
(* Nodes live in an arena `nodes` (a sequence of node records); a node     *)
(* pointer is an index into it and 0 is the null pointer.  Coordinates are *)
(* small integers, which doubles represent exactly, so areas, distances    *)
(* and their comparisons are the ones the C++ computes.  The build keeps   *)
(* assert() enabled: a failing assertion aborts the process, recorded in   *)
(* `aborted`, after which no operation runs.                               *)
(***************************************************************************)
EXTENDS Integers, Sequences, FiniteSets, TLC

\* ------------------------------------------------------------------------
\* Compile-time parameters
\* ------------------------------------------------------------------------
\* Box<T, NDim>, Quadratic<MaxChildren, MinChildren = MaxChildren/2> and
\* Linear<MaxChildren, MinChildren = MaxChildren/2>, instantiated small
NDim == 2
max_children == 4
min_children == max_children \div 2

\* std::numeric_limits<value_type>::max() / lowest(), and the +inf a double
\* overflows to.
FltMax == 1000000
Lowest == 0 - FltMax
Inf == FltMax + 1

Dims == 1..NDim

Sat(x) == IF x > FltMax THEN Inf ELSE x

Min2(a, b) == IF a < b THEN a ELSE b
Max2(a, b) == IF a > b THEN a ELSE b
Abs(x) == IF x < 0 THEN 0 - x ELSE x

\* ------------------------------------------------------------------------
\* Box (bound/box.hpp)
\* ------------------------------------------------------------------------
MkBox(lo, hi) == [min |-> lo, max |-> hi]
PointBox(p) == MkBox(p, p)

BoxReset_origin == MkBox([i \in Dims |-> 0], [i \in Dims |-> 0])
BoxReset == MkBox([i \in Dims |-> FltMax], [i \in Dims |-> Lowest])

BoxStretch(a, b) ==
  MkBox([i \in Dims |-> Min2(a.min[i], b.min[i])],
        [i \in Dims |-> Max2(a.max[i], b.max[i])])

BoxLength(a, i) == a.max[i] - a.min[i]

RECURSIVE AreaFrom(_, _)
AreaFrom(a, i) == IF i > NDim THEN 1 ELSE BoxLength(a, i) * AreaFrom(a, i + 1)
BoxArea(a) == AreaFrom(a, 1)

BoxUnion(a, b) == BoxStretch(a, b)

IncreaseToHold(a, b) == BoxArea(BoxUnion(a, b)) - BoxArea(a)

BoxDisjoint(a, b) == \E i \in Dims : a.max[i] < b.min[i] \/ b.max[i] < a.min[i]
BoxIntersects(a, b) == \A i \in Dims : a.min[i] <= b.max[i] /\ a.max[i] >= b.min[i]
BoxOverlaps(a, b) == \A i \in Dims : a.min[i] < b.max[i] /\ a.max[i] > b.min[i]
BoxContains(a, b) == \A i \in Dims : a.min[i] <= b.min[i] /\ a.max[i] >= b.max[i]
ContainsNonInclusive(a, b) == \A i \in Dims : a.min[i] <= b.min[i] /\ a.max[i] > b.max[i]
BoxCovers(a, b) == \A i \in Dims : a.min[i] < b.min[i] /\ a.max[i] > b.max[i]
BoxEquals(a, b) == a.min = b.min /\ a.max = b.max

\* pow(d, 2) of a non-negative d, overflowing to +inf
SatSquare(d) == IF d > 0 /\ d > FltMax \div d THEN Inf ELSE d * d

RECURSIVE NearestFrom(_, _, _)
NearestFrom(a, b, i) ==
  IF i > NDim THEN 0
  ELSE LET b_bigger == Max2(0, b.min[i] - a.max[i])
           b_smaller == Max2(0, a.min[i] - b.max[i])
           b_dist == Max2(b_bigger, b_smaller)
       IN Sat(SatSquare(b_dist) + NearestFrom(a, b, i + 1))
BoxNearest(a, b) == NearestFrom(a, b, 1)

\* ------------------------------------------------------------------------
\* Nodes (rtree/node.hpp, page.hpp, leaf.hpp)
\* ------------------------------------------------------------------------
NoValue == [bound |-> BoxReset, key |-> 0 - 1]

\* Node(value): a leaf
NewLeaf(v) == [leaf |-> TRUE, parent |-> 0, kids |-> <<>>, bound |-> BoxReset, value |-> v]
\* Node(): an empty page whose bound is reset
NewPage == [leaf |-> FALSE, parent |-> 0, kids |-> <<>>, bound |-> BoxReset, value |-> NoValue]

isLeaf(h, n) == h[n].leaf
isPage(h, n) == ~h[n].leaf
hasParent(h, n) == h[n].parent # 0
getParent(h, n) == h[n].parent
NodeSize(h, n) == IF h[n].leaf THEN 0 ELSE Len(h[n].kids)
getBound(h, n) == IF h[n].leaf THEN h[n].value.bound ELSE h[n].bound
NodeArea(h, n) == BoxArea(getBound(h, n))
front(h, n) == h[n].kids[1]
back(h, n) == h[n].kids[Len(h[n].kids)]

\* A setParent that leaves the old parent in place
setParent_kept(h, n, p) == h
setParent(h, n, p) == [h EXCEPT ![n].parent = p]

NodeStretch(h, n, b) == [h EXCEPT ![n].bound = BoxStretch(@, b)]

\* Node::insert: the child's parent becomes n, the child is appended and the
\* page bound is stretched by the child's bound
NodeInsert(h, n, c) ==
  [h EXCEPT ![c].parent = n,
            ![n].kids = Append(@, c),
            ![n].bound = BoxStretch(@, getBound(h, c))]

\* Node::remove(child, false_type): std::list::remove, no restretch
NodeRemove(h, n, c) ==
  [h EXCEPT ![n].kids = SelectSeq(@, LAMBDA k : k # c)]

RECURSIVE StretchOver(_, _, _, _)
StretchOver(h, ks, i, acc) ==
  IF i > Len(ks) THEN acc
  ELSE StretchOver(h, ks, i + 1, BoxStretch(acc, getBound(h, ks[i])))

restretch_stale(h, n) == h
\* Page::restretch: reset, then stretch over the current children
restretch(h, n) == [h EXCEPT ![n].bound = StretchOver(h, h[n].kids, 1, BoxReset)]

NodeClear(h, n) == [h EXCEPT ![n].kids = <<>>]

\* ------------------------------------------------------------------------
\* Split strategies (rtree/quadratic.hpp, rtree/linear.hpp)
\* ------------------------------------------------------------------------
\* The (i, j) pairs of the nested loops of Quadratic::pick_seeds, in loop order
RECURSIVE PairsFrom(_, _, _)
PairsFrom(n, i, j) ==
  IF i >= n THEN <<>>
  ELSE IF j > n THEN PairsFrom(n, i + 1, i + 2)
  ELSE <<<<i, j>>>> \o PairsFrom(n, i, j + 1)

\* Index of the first element of ws that is strictly greater than all before
\* it and not exceeded later: the element a "if (w > best) best = w" scan keeps
FirstMax(ws) ==
  CHOOSE i \in 1..Len(ws) :
    /\ \A k \in 1..Len(ws) : ws[k] <= ws[i]
    /\ \A k \in 1..(i - 1) : ws[k] < ws[i]

FirstMin(ws) ==
  CHOOSE i \in 1..Len(ws) :
    /\ \A k \in 1..Len(ws) : ws[k] >= ws[i]
    /\ \A k \in 1..(i - 1) : ws[k] > ws[i]

\* wasted = Union(a, b).area() - a.area() - b.area() for the pair pr
Wasted(h, ks, pr) ==
  BoxArea(BoxUnion(getBound(h, ks[pr[1]]), getBound(h, ks[pr[2]])))
    - NodeArea(h, ks[pr[1]]) - NodeArea(h, ks[pr[2]])

SeedPair(ks, pr) == [first |-> ks[pr[1]], second |-> ks[pr[2]], err |-> ""]

QuadraticSeedsOf(h, ks, prs) ==
  IF Len(prs) = 0
    THEN [first |-> 0, second |-> 0, err |-> "pick_seeds: assert(ans.first)"]
    ELSE SeedPair(ks, prs[FirstMax([k \in 1..Len(prs) |-> Wasted(h, ks, prs[k])])])

QuadraticPickSeeds(h, p) ==
  QuadraticSeedsOf(h, h[p].kids, PairsFrom(Len(h[p].kids), 1, 2))

\* The new page whose bound grows the least takes the child; b on a tie
PickInto(h, a, b, c) ==
  [child |-> c,
   into |-> IF IncreaseToHold(getBound(h, a), getBound(h, c))
                 < IncreaseToHold(getBound(h, b), getBound(h, c))
              THEN a ELSE b]

\* |increase of a - increase of b| when holding child c
Preference(h, a, b, c) ==
  Abs(IncreaseToHold(getBound(h, a), getBound(h, c))
        - IncreaseToHold(getBound(h, b), getBound(h, c)))

QuadraticPickNext(h, p, a, b) ==
  PickInto(h, a, b,
           h[p].kids[FirstMax([k \in 1..Len(h[p].kids) |-> Preference(h, a, b, h[p].kids[k])])])

\* scaled_length = |minimum_max_value - maximum_min_value| / length(i) as the
\* fraction num/den; 0/0 is NaN, which compares false with everything
ScaledGreater(x, y) ==
  IF x.num = 0 /\ x.den = 0 THEN FALSE
  ELSE IF ~y.set THEN TRUE
  ELSE IF x.den = 0 THEN y.den # 0
  ELSE IF y.den = 0 THEN FALSE
  ELSE x.num * y.den > y.num * x.den

\* The separation of the children along dimension i: the child with the
\* lowest max and the child with the highest min
Separation(h, p, i, ks, minimum_max, maximum_min) ==
  [set |-> TRUE,
   num |-> Abs(getBound(h, ks[minimum_max]).max[i] - getBound(h, ks[maximum_min]).min[i]),
   den |-> BoxLength(getBound(h, p), i),
   first |-> ks[minimum_max], second |-> ks[maximum_min]]

Larger(scaled, acc) == IF ScaledGreater(scaled, acc) THEN scaled ELSE acc

RECURSIVE LinearSeedScan(_, _, _, _)
LinearSeedScan(h, p, i, acc) ==
  IF i > NDim THEN acc
  ELSE LinearSeedScan(h, p, i + 1,
         Larger(Separation(h, p, i, h[p].kids,
                           FirstMin([k \in 1..Len(h[p].kids) |-> getBound(h, h[p].kids[k]).max[i]]),
                           FirstMax([k \in 1..Len(h[p].kids) |-> getBound(h, h[p].kids[k]).min[i]])),
                acc))

\* if (ans.first == ans.second) the second seed becomes another child
OtherSeed(h, p, ans) ==
  IF ans.first = ans.second
    THEN (IF ans.first = front(h, p) THEN back(h, p) ELSE front(h, p))
    ELSE ans.second

LinearSeedsOf(first, second) ==
  [first |-> first, second |-> second,
   err |-> IF first = 0 THEN "pick_seeds: assert(ans.first)"
           ELSE IF second = 0 THEN "pick_seeds: assert(ans.second)"
           ELSE IF first = second THEN "pick_seeds: assert(ans.first != ans.second)"
           ELSE ""]

LinearSeedsFrom(h, p, ans) == LinearSeedsOf(ans.first, OtherSeed(h, p, ans))

LinearPickSeeds(h, p) ==
  LinearSeedsFrom(h, p, LinearSeedScan(h, p, 1,
                    [set |-> FALSE, num |-> 0, den |-> 1, first |-> 0, second |-> 0]))

LinearPickNext(h, p, a, b) == PickInto(h, a, b, front(h, p))

pick_seeds(st, h, p) ==
  IF st = "Linear" THEN LinearPickSeeds(h, p) ELSE QuadraticPickSeeds(h, p)

pick_next(st, h, p, a, b) ==
  IF st = "Linear" THEN LinearPickNext(h, p, a, b) ELSE QuadraticPickNext(h, p, a, b)

\* ------------------------------------------------------------------------
\* Algorithm (rtree/algorithm.hpp)
\* ------------------------------------------------------------------------
\* into->insert(child); parent->remove(child)
SplitMove(h, p, nx) == NodeRemove(NodeInsert(h, nx.into, nx.child), p, nx.child)

\* while (parent not empty and neither new page needs all that is left)
RECURSIVE SplitPlace(_, _, _, _, _)
SplitPlace(st, h, p, a, b) ==
  IF /\ NodeSize(h, p) > 0
     /\ NodeSize(h, p) + NodeSize(h, a) > min_children
     /\ NodeSize(h, p) + NodeSize(h, b) > min_children
    THEN SplitPlace(st, SplitMove(h, p, pick_next(st, h, p, a, b)), p, a, b)
    ELSE h

\* do { into.insert(parent.front()); parent.remove(parent.front()) } while (size > 0)
RECURSIVE SplitDump(_, _, _)
RECURSIVE SplitDumpWhile(_, _, _)
SplitDump(h, p, into) ==
  SplitDumpWhile(SplitMove(h, p, [into |-> into, child |-> front(h, p)]), p, into)
SplitDumpWhile(h, p, into) ==
  IF NodeSize(h, p) > 0 THEN SplitDump(h, p, into) ELSE h

\* What is left in the parent goes to the new page that is short of children
SplitRest(h, p, a, b) ==
  IF NodeSize(h, p) > 0
    THEN SplitDump(h, p, IF NodeSize(h, a) < min_children THEN a ELSE b)
    ELSE h

SplitSizeErr(h, p, a, b) ==
  IF NodeSize(h, a) < min_children THEN "split_node: assert(a.size() >= min_children)"
  ELSE IF NodeSize(h, b) < min_children THEN "split_node: assert(b.size() >= min_children)"
  ELSE IF NodeSize(h, a) > max_children THEN "split_node: assert(a.size() <= max_children)"
  ELSE IF NodeSize(h, b) > max_children THEN "split_node: assert(b.size() <= max_children)"
  ELSE IF NodeSize(h, p) # 0 THEN "split_node: assert(parent.size() == 0)"
  ELSE ""

SplitResult(h, p, a, b) == [h |-> h, a |-> a, b |-> b, err |-> SplitSizeErr(h, p, a, b)]

\* A new page that takes its seed from the parent
SplitSeed(h, p, seed) ==
  NodeRemove(NodeInsert(Append(h, NewPage), Len(h) + 1, seed), p, seed)

\* split_node after pick_seeds; a and b are the two new pages
SplitWith(st, h, p, seeds, a, b) ==
  IF seeds.err # "" THEN [h |-> h, a |-> 0, b |-> 0, err |-> seeds.err]
  ELSE SplitResult(
         NodeClear(
           SplitRest(
             SplitPlace(st, SplitSeed(SplitSeed(h, p, seeds.first), p, seeds.second), p, a, b),
             p, a, b),
           p),
         p, a, b)

split_node(st, h, p) == SplitWith(st, h, p, pick_seeds(st, h, p), Len(h) + 1, Len(h) + 2)

\* The scan of find_best_fit_in_node over the children ks[i..]; cmin is
\* current_minimum and best the best_node so far (0 is nullptr)
RECURSIVE BestFitScan(_, _, _, _, _, _)
BestFitScan(h, bbox, ks, i, cmin, best) ==
  IF i > Len(ks) THEN [ret |-> best, err |-> IF best = 0 THEN "find_best_fit_in_node: assert(best_node)" ELSE ""]
  ELSE LET child == ks[i]
           area_to_enlarge == IncreaseToHold(getBound(h, child), bbox)
       IN IF area_to_enlarge < cmin
            THEN BestFitScan(h, bbox, ks, i + 1, area_to_enlarge, child)
          ELSE IF area_to_enlarge = cmin
            THEN IF best = 0
                   THEN [ret |-> 0, err |-> "find_best_fit_in_node: assert(best_node)"]
                 ELSE IF \/ NodeArea(h, child) < NodeArea(h, best)
                         \/ NodeSize(h, child) < NodeSize(h, best)
                   THEN BestFitScan(h, bbox, ks, i + 1, cmin, child)
                 ELSE BestFitScan(h, bbox, ks, i + 1, cmin, best)
          ELSE BestFitScan(h, bbox, ks, i + 1, cmin, best)

find_best_fit_in_node(h, bbox, cur) ==
  IF NodeSize(h, cur) = 0
    THEN [ret |-> 0, err |-> "find_best_fit_in_node: assert(current_node->size() > 0)"]
  ELSE IF isLeaf(h, front(h, cur))
    THEN [ret |-> front(h, cur), err |-> ""]
  ELSE BestFitScan(h, bbox, h[cur].kids, 1, FltMax, 0)

\* while (current_node->isPage()) current_node = find_best_fit_in_node(...)
RECURSIVE BestFitDescend(_, _, _)
RECURSIVE BestFitStep(_, _, _)
BestFitDescend(h, bbox, cur) ==
  IF isPage(h, cur)
    THEN IF NodeSize(h, cur) = 0
           THEN [ret |-> 0, err |-> "find_best_fit_in_tree: assert(current_node->size() > 0)"]
           ELSE BestFitStep(h, bbox, find_best_fit_in_node(h, bbox, cur))
    ELSE [ret |-> getParent(h, cur), err |-> ""]
BestFitStep(h, bbox, r) ==
  IF r.err # "" THEN r ELSE BestFitDescend(h, bbox, r.ret)

FoundIn(h, r) == [h |-> h, ret |-> r.ret, err |-> r.err]

find_best_fit_in_tree(h, start, bbox) ==
  IF start = 0
    THEN [h |-> Append(h, NewPage), ret |-> Len(h) + 1, err |-> ""]
    ELSE FoundIn(h, BestFitDescend(h, bbox, start))

\* The while (hasParent) loop of expand_tree followed by the root split
RECURSIVE ExpandUp(_, _, _, _)
RECURSIVE ExpandSplit(_, _, _, _, _)
RECURSIVE ExpandStretch(_, _, _, _)
ExpandUp(st, h, start, cur) ==
  IF NodeSize(h, cur) > max_children
    THEN ExpandSplit(st, h, start, cur, split_node(st, h, cur))
  ELSE IF hasParent(h, cur)
    THEN ExpandStretch(st, h, start, getParent(h, cur))
  ELSE [h |-> h, ret |-> cur, err |-> ""]
\* cur was over max_children and s is its split: the two new pages replace
\* cur in its parent, or become the children of a new root
ExpandSplit(st, h, start, cur, s) ==
  IF s.err # "" THEN [h |-> h, ret |-> cur, err |-> s.err]
  ELSE IF hasParent(h, cur)
    THEN ExpandStretch(st,
           NodeInsert(NodeInsert(NodeRemove(s.h, getParent(h, cur), cur), getParent(h, cur), s.a),
                      getParent(h, cur), s.b),
           start, getParent(h, cur))
  ELSE [h |-> NodeInsert(NodeInsert(Append(s.h, NewPage), Len(s.h) + 1, s.a), Len(s.h) + 1, s.b),
        ret |-> Len(s.h) + 1, err |-> ""]
\* parent->stretch(start->getBound()); current = parent
ExpandStretch(st, h, start, parent) ==
  ExpandUp(st, NodeStretch(h, parent, getBound(h, start)), start, parent)

expand_tree(st, h, start) == ExpandUp(st, h, start, start)

\* insert after find_best_fit_in_tree returned f
InsertInto(st, h, start, place, f) ==
  IF f.err # "" THEN [h |-> h, ret |-> start, err |-> f.err]
  ELSE expand_tree(st, NodeInsert(f.h, f.ret, place), f.ret)

\* Algorithm::insert: place the node place under the tree of start
insert(st, h, start, place) ==
  InsertInto(st, h, start, place, find_best_fit_in_tree(h, start, getBound(h, place)))

\* The while (hasParent) loop of condense_tree: dissolve undersized pages,
\* collecting their children as orphans, and restretch every ancestor
never_undersized(h, n) == FALSE
\* current_node_ptr->size() < Parameters::min_children
undersized(h, n) == NodeSize(h, n) < min_children

RECURSIVE CondenseUp(_, _, _)
CondenseUp(h, cur, orphans) ==
  IF hasParent(h, cur)
    THEN LET parent == getParent(h, cur)
             under == undersized(h, cur)
             h1 == IF under THEN NodeRemove(h, parent, cur) ELSE h
         IN CondenseUp(restretch(h1, parent), parent,
                       IF under THEN orphans \o h[cur].kids ELSE orphans)
    ELSE [h |-> h, ret |-> cur, orphans |-> orphans]

\* for (orphan : orphan_node_list) current_node_ptr = insert(current_node_ptr, orphan)
RECURSIVE Reinsert(_, _, _, _, _)
RECURSIVE ReinsertNext(_, _, _, _)
Reinsert(st, h, cur, orphans, i) ==
  IF i > Len(orphans) THEN [h |-> h, ret |-> cur, err |-> ""]
  ELSE ReinsertNext(st, orphans, i, insert(st, h, cur, orphans[i]))
ReinsertNext(st, orphans, i, r) ==
  IF r.err # "" THEN r ELSE Reinsert(st, r.h, r.ret, orphans, i + 1)

\* A root page left with a single page child gives way to that child
CondenseRoot(r) ==
  IF r.err # "" THEN r
  ELSE IF NodeSize(r.h, r.ret) = 1 /\ ~isLeaf(r.h, front(r.h, r.ret))
    THEN [h |-> setParent(r.h, front(r.h, r.ret), 0), ret |-> front(r.h, r.ret), err |-> ""]
  ELSE r

CondenseOrphans(st, c) == Reinsert(st, c.h, c.ret, c.orphans, 1)

condense_tree(st, h, start) == CondenseRoot(CondenseOrphans(st, CondenseUp(h, start, <<>>)))

RECURSIVE RemoveAll(_, _, _, _)
RemoveAll(h, n, ms, i) ==
  IF i > Len(ms) THEN h ELSE RemoveAll(NodeRemove(h, n, ms[i]), n, ms, i + 1)

\* The children of page n that are leaves holding v
Matching(h, n, v) ==
  SelectSeq(h[n].kids, LAMBDA c : getBound(h, c) = v.bound /\ h[c].value = v)

\* remove after find_best_fit_in_tree returned f; child->data() is read of
\* every child, which has to be a leaf
RemoveFrom(st, h, start, v, f) ==
  IF f.err # "" THEN [h |-> h, ret |-> start, err |-> f.err]
  ELSE IF \E k \in 1..NodeSize(f.h, f.ret) : ~isLeaf(f.h, f.h[f.ret].kids[k])
    THEN [h |-> h, ret |-> start, err |-> "remove: assert(child->isLeaf())"]
  ELSE condense_tree(st, restretch(RemoveAll(f.h, f.ret, Matching(f.h, f.ret, v), 1), f.ret), f.ret)

\* Algorithm::remove: the page that best fits v's bound is searched for
\* leaves with v's bound and data
remove(st, h, start, v) == RemoveFrom(st, h, start, v, find_best_fit_in_tree(h, start, v.bound))

\* ------------------------------------------------------------------------
\* Predicates (shared/predicate)
\* ------------------------------------------------------------------------
SpatialKinds ==
  {"Disjoint", "Intersects", "Overlaps", "Contains", "ContainedBy",
   "ContainedByNonInclusive", "Covers", "CoveredBy", "Equals"}

\* dispatch<Tag>::apply(a, b)
dispatch(tag, a, b) ==
  CASE tag = "all" -> TRUE
    [] tag = "disjoint" -> BoxDisjoint(a, b)
    [] tag = "intersects" -> BoxIntersects(a, b)
    [] tag = "overlaps" -> BoxOverlaps(a, b)
    [] tag = "contains" -> BoxContains(a, b)
    [] tag = "contained_by" -> BoxContains(b, a)
    [] tag = "contained_ni_by" -> ContainsNonInclusive(b, a)
    [] tag = "covers" -> BoxCovers(a, b)
    [] tag = "covered_by" -> BoxCovers(b, a)
    [] tag = "equals" -> BoxEquals(a, b)

\* The factories: the tag applied to leaves and the tag applied to pages
LeafOpTag(kind) ==
  CASE kind = "Disjoint" -> "disjoint"
    [] kind = "Intersects" -> "intersects"
    [] kind = "Overlaps" -> "overlaps"
    [] kind = "Contains" -> "contains"
    [] kind = "ContainedBy" -> "contained_by"
    [] kind = "ContainedByNonInclusive" -> "contained_ni_by"
    [] kind = "Covers" -> "covers"
    [] kind = "CoveredBy" -> "covered_by"
    [] kind = "Equals" -> "equals"

NodeOpTag_as_leaf(kind) == LeafOpTag(kind)
NodeOpTag(kind) ==
  CASE kind = "Disjoint" -> "all"
    [] kind = "Intersects" -> "intersects"
    [] kind = "Overlaps" -> "overlaps"
    [] kind = "Contains" -> "contains"
    [] kind = "ContainedBy" -> "intersects"
    [] kind = "ContainedByNonInclusive" -> "intersects"
    [] kind = "Covers" -> "covers"
    [] kind = "CoveredBy" -> "overlaps"
    [] kind = "Equals" -> "intersects"

\* spatial_predicate::operator()(bound, is_leaf), _bound being the query box
spatial_predicate(kind, qb, bound, is_leaf) ==
  IF is_leaf THEN dispatch(LeafOpTag(kind), bound, qb)
  ELSE dispatch(NodeOpTag(kind), bound, qb)

\* distance_predicate::operator()(bound, is_leaf) of Nearest: both tags are
\* to_nearest
distance_predicate(qb, bound, is_leaf) == BoxNearest(bound, qb)

\* ------------------------------------------------------------------------
\* Ordered containers keyed by the first member of a pair (LessPair<0>)
\* ------------------------------------------------------------------------
MultisetEmplace_unordered(sq, e) == Append(sq, e)
\* std::multiset::emplace: the new element goes after the elements whose key
\* is not greater
MultisetEmplace(sq, e) ==
  LET k == Cardinality({i \in 1..Len(sq) : sq[i].dist <= e.dist})
  IN SubSeq(sq, 1, k) \o <<e>> \o SubSeq(sq, k + 1, Len(sq))

\* A truncation that keeps the largest keys
truncate_largest(sq, count) ==
  IF Len(sq) > count THEN SubSeq(sq, Len(sq) - count + 1, Len(sq)) ELSE sq

\* TruncatedMultiSet::truncate_
truncate_(sq, count) == IF Len(sq) > count THEN SubSeq(sq, 1, count) ELSE sq

\* TruncatedMultiSet::emplace
TruncatedEmplace(sq, e, count) == truncate_(MultisetEmplace(sq, e), count)

\* ------------------------------------------------------------------------
\* Box operations of the partitioner (bound/box.hpp)
\* ------------------------------------------------------------------------
\* One unit in the last place.  The coordinates of the partitioner's points
\* are multiples of Grid units, so that nexttoward moves a face by less than
\* the distance between any two coordinates
Ulp == 1
Grid == 4

\* Box::next_larger: every face moves outwards to the next representable value
next_larger(b) ==
  MkBox([i \in Dims |-> b.min[i] - Ulp], [i \in Dims |-> b.max[i] + Ulp])

\* Box::center: 0.5 * (max + min), exact for the point boxes it is read from
center(b, i) == (b.max[i] + b.min[i]) \div 2

\* Box::longest_dimension: the first dimension of the greatest length
RECURSIVE LongestFrom(_, _, _)
LongestFrom(b, i, ans) ==
  IF i > NDim THEN ans
  ELSE LongestFrom(b, i + 1, IF BoxLength(b, i) > BoxLength(b, ans) THEN i ELSE ans)
longest_dimension(b) == LongestFrom(b, 2, 1)

\* Box::less: true as soon as some dimension has a.min < b.min
BoxLess(a, b) == \E i \in Dims : a.min[i] < b.min[i]

\* The box with face f ("min" or "max") of dimension d moved to x
WithFace(b, f, d, x) == [b EXCEPT ![f][d] = x]

\* ------------------------------------------------------------------------
\* std::set<box_type, box_type::less>: the red-black tree of libstdc++.  The
\* tree is kept as it is built because less is no strict weak order: where
\* an insert lands, and whether it is rejected, depends on the nodes met on
\* the way down.  Node 0 is the header.
\* ------------------------------------------------------------------------
EmptySet == [root |-> 0, node |-> <<>>]

RECURSIVE RbMinimum(_, _)
RbMinimum(t, x) == IF t.node[x].left = 0 THEN x ELSE RbMinimum(t, t.node[x].left)
RECURSIVE RbMaximum(_, _)
RbMaximum(t, x) == IF t.node[x].right = 0 THEN x ELSE RbMaximum(t, t.node[x].right)

\* begin(): the leftmost node, the header for an empty tree
RbBegin(t) == IF t.root = 0 THEN 0 ELSE RbMinimum(t, t.root)

\* _Rb_tree_decrement of a node that is not the leftmost one
RECURSIVE RbClimbLeft(_, _)
RbClimbLeft(t, x) ==
  IF t.node[x].parent # 0 /\ x = t.node[t.node[x].parent].left
    THEN RbClimbLeft(t, t.node[x].parent)
    ELSE t.node[x].parent
RbDecrement(t, x) ==
  IF t.node[x].left # 0 THEN RbMaximum(t, t.node[x].left) ELSE RbClimbLeft(t, x)

\* The walk down of _M_get_insert_unique_pos: y is the last node met and comp
\* the last comparison
RECURSIVE RbDescend(_, _, _, _, _)
RbDescend(t, k, x, y, comp) ==
  IF x = 0 THEN [y |-> y, comp |-> comp]
  ELSE RbDescend(t, k,
                 IF BoxLess(k, t.node[x].key) THEN t.node[x].left ELSE t.node[x].right,
                 x, BoxLess(k, t.node[x].key))

\* _M_get_insert_unique_pos: the parent to insert below, or 0 with
\* unique = FALSE when the neighbour j is not less than k
RbNeighbour(t, k, y, j) ==
  IF BoxLess(t.node[j].key, k) THEN [unique |-> TRUE, y |-> y]
  ELSE [unique |-> FALSE, y |-> j]
RbUniquePos(t, k, pos) ==
  IF pos.comp
    THEN IF pos.y = RbBegin(t) THEN [unique |-> TRUE, y |-> pos.y]
         ELSE RbNeighbour(t, k, pos.y, RbDecrement(t, pos.y))
    ELSE RbNeighbour(t, k, pos.y, pos.y)

\* _Rb_tree_rotate_left and _Rb_tree_rotate_right about x
RbReplaceChild(t, x, y) ==
  IF x = t.root THEN [root |-> y, node |-> t.node]
  ELSE IF x = t.node[t.node[x].parent].left
    THEN [root |-> t.root, node |-> [t.node EXCEPT ![t.node[x].parent].left = y]]
  ELSE [root |-> t.root, node |-> [t.node EXCEPT ![t.node[x].parent].right = y]]
RbAdopt(ns, child, parent) ==
  IF child = 0 THEN ns ELSE [ns EXCEPT ![child].parent = parent]
RbRotateLeftBy(t, x, y) ==
  [root |-> t.root,
   node |-> [RbAdopt(t.node, t.node[y].left, x)
               EXCEPT ![x].right = t.node[y].left, ![x].parent = y,
                      ![y].left = x, ![y].parent = t.node[x].parent]]
RbRotateLeft(t, x) == RbRotateLeftBy(RbReplaceChild(t, x, t.node[x].right), x, t.node[x].right)
RbRotateRightBy(t, x, y) ==
  [root |-> t.root,
   node |-> [RbAdopt(t.node, t.node[y].right, x)
               EXCEPT ![x].left = t.node[y].right, ![x].parent = y,
                      ![y].right = x, ![y].parent = t.node[x].parent]]
RbRotateRight(t, x) == RbRotateRightBy(RbReplaceChild(t, x, t.node[x].left), x, t.node[x].left)

RbPaint(t, x, red) == [root |-> t.root, node |-> [t.node EXCEPT ![x].red = red]]
RbIsRed(t, x) == x # 0 /\ t.node[x].red
RbParent(t, x) == t.node[x].parent
RbGrand(t, x) == t.node[t.node[x].parent].parent

\* The rebalancing loop of _Rb_tree_insert_and_rebalance, x being the red
\* node just inserted or recoloured
RECURSIVE RbRebalance(_, _)
RECURSIVE RbOuter(_, _, _)
RbRebalance(t, x) ==
  IF x = t.root \/ ~RbIsRed(t, RbParent(t, x)) THEN RbPaint(t, t.root, FALSE)
  ELSE IF RbParent(t, x) = t.node[RbGrand(t, x)].left
    THEN IF RbIsRed(t, t.node[RbGrand(t, x)].right)
           THEN RbRebalance(
                  RbPaint(RbPaint(RbPaint(t, RbParent(t, x), FALSE),
                                  t.node[RbGrand(t, x)].right, FALSE),
                          RbGrand(t, x), TRUE),
                  RbGrand(t, x))
         ELSE IF x = t.node[RbParent(t, x)].right
           THEN RbOuter(RbRotateLeft(t, RbParent(t, x)), RbParent(t, x), "left")
         ELSE RbOuter(t, x, "left")
  ELSE IF RbIsRed(t, t.node[RbGrand(t, x)].left)
    THEN RbRebalance(
           RbPaint(RbPaint(RbPaint(t, RbParent(t, x), FALSE),
                           t.node[RbGrand(t, x)].left, FALSE),
                   RbGrand(t, x), TRUE),
           RbGrand(t, x))
  ELSE IF x = t.node[RbParent(t, x)].left
    THEN RbOuter(RbRotateRight(t, RbParent(t, x)), RbParent(t, x), "right")
  ELSE RbOuter(t, x, "right")
\* x is an outer grandchild on the given side: its parent turns black, its
\* grandparent red, and the grandparent is rotated away from that side
RbOuter(t, x, side) ==
  IF side = "left"
    THEN RbRebalance(RbRotateRight(RbPaint(RbPaint(t, RbParent(t, x), FALSE), RbGrand(t, x), TRUE),
                                   RbGrand(t, x)), x)
    ELSE RbRebalance(RbRotateLeft(RbPaint(RbPaint(t, RbParent(t, x), FALSE), RbGrand(t, x), TRUE),
                                  RbGrand(t, x)), x)

\* _M_insert_: the new red node z goes below p, to the left when p is the
\* header or k is less than p's key
RbLink(t, k, p, z) ==
  IF p = 0
    THEN [root |-> z, node |-> Append(t.node, [key |-> k, left |-> 0, right |-> 0, parent |-> 0, red |-> TRUE])]
  ELSE IF BoxLess(k, t.node[p].key)
    THEN [root |-> t.root,
          node |-> Append([t.node EXCEPT ![p].left = z],
                          [key |-> k, left |-> 0, right |-> 0, parent |-> p, red |-> TRUE])]
  ELSE [root |-> t.root,
        node |-> Append([t.node EXCEPT ![p].right = z],
                        [key |-> k, left |-> 0, right |-> 0, parent |-> p, red |-> TRUE])]

RbInsertAt(t, k, where) ==
  IF where.unique THEN RbRebalance(RbLink(t, k, where.y, Len(t.node) + 1), Len(t.node) + 1)
  ELSE t

\* std::set::insert
SetInsert(t, k) == RbInsertAt(t, k, RbUniquePos(t, k, RbDescend(t, k, t.root, 0, TRUE)))

\* The elements from begin() to end()
RECURSIVE RbInOrder(_, _)
RbInOrder(t, x) ==
  IF x = 0 THEN <<>>
  ELSE RbInOrder(t, t.node[x].left) \o <<t.node[x].key>> \o RbInOrder(t, t.node[x].right)
SetElements(t) == RbInOrder(t, t.root)

\* ------------------------------------------------------------------------
\* RTree queries (index/rtree.hpp)
\* ------------------------------------------------------------------------
\* The while loop of the spatial query_dispatch over the list candidate_nodes
RECURSIVE SpatialScan(_, _, _, _, _)
SpatialScan(h, kind, qb, cand, out) ==
  IF cand = <<>> THEN out
  ELSE LET current_candidate == Head(cand)
           candidate_is_leaf == isLeaf(h, current_candidate)
       IN IF spatial_predicate(kind, qb, getBound(h, current_candidate), candidate_is_leaf)
            THEN IF candidate_is_leaf
                   THEN SpatialScan(h, kind, qb, Tail(cand), Append(out, h[current_candidate].value))
                   ELSE SpatialScan(h, kind, qb, Tail(cand) \o h[current_candidate].kids, out)
            ELSE SpatialScan(h, kind, qb, Tail(cand), out)

Emitted(out) == [out |-> out, count |-> Len(out), err |-> ""]

RTreeQuerySpatial(h, r, kind, qb) ==
  IF r = 0 THEN [out |-> <<>>, count |-> 0, err |-> ""]
  ELSE Emitted(SpatialScan(h, kind, qb, <<r>>, <<>>))

\* for (child : *current_candidate) candidate_nodes.emplace(pred(...), child)
RECURSIVE EmplaceChildren(_, _, _, _, _)
EmplaceChildren(h, qb, ks, i, cand) ==
  IF i > Len(ks) THEN cand
  ELSE EmplaceChildren(h, qb, ks, i + 1,
         MultisetEmplace(cand, [dist |-> distance_predicate(qb, getBound(h, ks[i]), isLeaf(h, ks[i])),
                                node |-> ks[i]]))

\* The while loop of the distance query_dispatch.  With K = 0 the set
\* candidate_leafs stays empty and crbegin() is dereferenced on it: ub is
\* what that undefined read does (a fault, or a value read past the set)
RECURSIVE NearestScan(_, _, _, _, _, _, _)
NearestScan(h, qb, K, ub, cand, leafs, threshhold) ==
  IF cand = <<>> THEN [leafs |-> leafs, err |-> ""]
  ELSE LET front_ == Head(cand)
           rest == Tail(cand)
       IN IF front_.dist <= threshhold
            THEN IF isLeaf(h, front_.node)
                   THEN LET leafs1 == TruncatedEmplace(leafs, front_, K)
                        IN IF Len(leafs1) >= K
                             THEN IF leafs1 = <<>>
                                    THEN IF ub.fault
                                           THEN [leafs |-> leafs1, err |-> "query_dispatch: crbegin() of an empty candidate_leafs"]
                                           ELSE NearestScan(h, qb, K, ub, rest, leafs1, ub.read)
                                    ELSE NearestScan(h, qb, K, ub, rest, leafs1, leafs1[Len(leafs1)].dist)
                             ELSE NearestScan(h, qb, K, ub, rest, leafs1, threshhold)
                   ELSE NearestScan(h, qb, K, ub, EmplaceChildren(h, qb, h[front_.node].kids, 1, rest), leafs, threshhold)
            ELSE NearestScan(h, qb, K, ub, rest, leafs, threshhold)

\* The values of candidate_leafs are written to the output in set order
EmittedLeafs(h, s) ==
  [out |-> [i \in 1..Len(s.leafs) |-> h[s.leafs[i].node].value],
   count |-> Len(s.leafs), err |-> s.err]

RTreeQueryNearest(h, r, qb, K, ub) ==
  IF r = 0 THEN [out |-> <<>>, count |-> 0, err |-> ""]
  ELSE EmittedLeafs(h,
         NearestScan(h, qb, K, ub,
                     <<[dist |-> distance_predicate(qb, getBound(h, r), isLeaf(h, r)), node |-> r]>>,
                     <<>>, FltMax))

\* ------------------------------------------------------------------------
\* Exhaustive index (index/exhaustive.hpp): the list _values
\* ------------------------------------------------------------------------
ExhaustiveInsert(vs, v) == Append(vs, v)

\* std::remove_if from position i on, after a first match was found: every
\* element that does not match is moved to position result, which then
\* advances; the list keeps its length, and the positions from the final
\* result on keep the values they held (moving a value of bound and key
\* copies it)
RECURSIVE RemoveIfFrom(_, _, _, _)
RemoveIfFrom(vs, value, i, result) ==
  IF i > Len(vs) THEN vs
  ELSE IF vs[i] = value THEN RemoveIfFrom(vs, value, i + 1, result)
  ELSE RemoveIfFrom([vs EXCEPT ![result] = vs[i]], value, i + 1, result + 1)

\* Exhaustive::remove(value): _remove calls std::remove_if over _values and
\* drops the iterator it returns; _restretch recomputes the bound, which
\* no query reads
ExhaustiveRemove(vs, value) ==
  IF \A i \in 1..Len(vs) : vs[i] # value THEN vs
  ELSE LET first == CHOOSE i \in 1..Len(vs) :
                      vs[i] = value /\ \A j \in 1..(i - 1) : vs[j] # value
       IN RemoveIfFrom(vs, value, first + 1, first)

ExhaustiveEmitted(out) == [out |-> out, count |-> Len(out)]

ExhaustiveQuerySpatial(vs, kind, qb) ==
  ExhaustiveEmitted(SelectSeq(vs, LAMBDA v : spatial_predicate(kind, qb, v.bound, TRUE)))

RECURSIVE MinSetFill(_, _, _, _, _)
MinSetFill(vs, qb, K, i, min_set) ==
  IF i > Len(vs) THEN min_set
  ELSE MinSetFill(vs, qb, K, i + 1,
         TruncatedEmplace(min_set, [dist |-> distance_predicate(qb, vs[i].bound, TRUE), value |-> vs[i]], K))

\* The count returned is pred.count(), not the size of min_set
ExhaustiveEmittedSet(min_set, K) ==
  [out |-> [i \in 1..Len(min_set) |-> min_set[i].value], count |-> K]

ExhaustiveQueryNearest(vs, qb, K) ==
  ExhaustiveEmittedSet(MinSetFill(vs, qb, K, 1, <<>>), K)

\* ------------------------------------------------------------------------
\* Observations of a tree (used by the history variables and the properties)
\* ------------------------------------------------------------------------
\* The nodes reachable from n through child lists, n included
RECURSIVE Subtree(_, _)
Subtree(h, n) ==
  IF n = 0 THEN {}
  ELSE IF h[n].leaf THEN {n}
  ELSE {n} \cup UNION {Subtree(h, h[n].kids[k]) : k \in 1..Len(h[n].kids)}

PagesOf(h, r) == {n \in Subtree(h, r) : ~h[n].leaf}

\* The values of the leaves below n, in child-list order
RECURSIVE LeafValues(_, _)
RECURSIVE LeafValuesOf(_, _, _)
LeafValues(h, n) ==
  IF n = 0 THEN <<>>
  ELSE IF h[n].leaf THEN <<h[n].value>>
  ELSE LeafValuesOf(h, h[n].kids, 1)
LeafValuesOf(h, ks, i) ==
  IF i > Len(ks) THEN <<>> ELSE LeafValues(h, ks[i]) \o LeafValuesOf(h, ks, i + 1)

\* The depths at which the leaves below n lie, n being at depth d
RECURSIVE LeafDepths(_, _, _)
LeafDepths(h, n, d) ==
  IF n = 0 THEN {}
  ELSE IF h[n].leaf THEN {d}
  ELSE UNION {LeafDepths(h, h[n].kids[k], d + 1) : k \in 1..Len(h[n].kids)}

Range(sq) == {sq[i] : i \in 1..Len(sq)}
NoDuplicates(sq) == \A i, j \in 1..Len(sq) : i # j => sq[i] # sq[j]

\* ------------------------------------------------------------------------
\* The program state
\* ------------------------------------------------------------------------
VARIABLES
  strategy,   \* the Parameters template argument of RTree: "Linear" or "Quadratic"
  input,      \* the point cloud the caller inserts, in index order
  nins,       \* number of insert calls so far
  nrem,       \* number of remove calls so far
  nodes,      \* the node arena
  root,       \* RTree::root_node_ptr_ (0 is nullptr)
  ex_values,  \* Exhaustive::_values of the reference index built alongside
  expected,   \* history: the values inserted and not subsequently removed
  aborted,    \* "" or the assertion or fault that ended the process
  last,       \* history: the last insert or remove
  answer,     \* what the last query since then returned
  comm_size,         \* RCB: m_comm.size(), 0 while no partitioner runs
  adapt,             \* RCB, per rank: the points and weights the adaptor hands to init
  pc,                \* RCB, per rank: the step of init the rank has reached
  rtree,             \* RCB, per rank: the R-tree of the local points
  local_split_list,  \* RCB, per rank: the medians packed for the all-reduce
  boxes_to_split,    \* RCB: the work list of (box, rank count) pairs
  final_boxes,       \* RCB: the std::set of final boxes
  offered,           \* RCB: the boxes handed to final_boxes.insert, in call order
  rounds,            \* RCB: the rounds of the while loop completed so far
  weighted_splits,    \* RCB: the split value of every box of the last round
  m_bounds,          \* RCB, per rank: the final bounds vector
  num_ranks,             \* system: world.size(), 0 while no exchange runs
  transport,             \* system: "eager" or "unbuffered" point-to-point sends
  xyz,                   \* system, per rank: target_unique_xyz and source_unique_xyz
  at,                    \* system, per rank: the part of main the rank has reached
  loop_rank,             \* system, per rank: the last rank its current loop handled
  target_sds,            \* system, per rank: the R-tree of the targets
  source_sds,            \* system, per rank: the R-tree of the sources
  target_bounds_by_rank, \* system: the all-gathered bounds of the target trees
  source_bounds_by_rank, \* system: the all-gathered bounds of the source trees
  recv_requests,         \* system, per rank: peer -> state of the posted receive
  send_requests,         \* system, per rank: peer -> state of the posted send
  send_to_ranks,         \* system, per rank: peer -> the list sent
  recv_from_ranks,       \* system, per rank: peer -> the list received
  global_source_sds,     \* system, per rank: the global R-tree
  history,               \* system, per rank: the point-to-point calls made, in order
  vals,                  \* UniqueMap: the vector given to the last setup
  unique_idx_,           \* UniqueMap: the indices of the first occurrences
  non_unique_map_,       \* UniqueMap: (index, index of first occurrence) pairs
  unique_vals,           \* UniqueMap: the output of reduce_to_unique
  expanded_vals,         \* UniqueMap: the output of expand_to_non_unique
  um_at,                 \* UniqueMap: the calls made since the map was created
  data_set,    \* TruncatedMultiSet: _data_set, in iteration order
  count,       \* TruncatedMultiSet: _count
  inserted,    \* history: the elements given to the multiset so far
  a_box,       \* Box: a box object, its min_ and max_
  since_reset, \* history: the boxes a_box was stretched by since its last reset
  pred,        \* spatial_predicate: the predicate kind and its _bound
  probe        \* history: the last call of the predicate and what it returned

tree_vars == <<strategy, input, nins, nrem, nodes, root, ex_values, expected, last, answer>>
rcb_vars ==
  <<comm_size, adapt, pc, rtree, local_split_list, boxes_to_split, final_boxes, offered, rounds,
    weighted_splits, m_bounds>>
rv_vars ==
  <<num_ranks, transport, xyz, at, loop_rank, target_sds, source_sds,
    target_bounds_by_rank, source_bounds_by_rank,
    recv_requests, send_requests, send_to_ranks, recv_from_ranks, global_source_sds,
    history>>
um_vars == <<vals, unique_idx_, non_unique_map_, unique_vals, expanded_vals, um_at>>
lib_vars == <<data_set, count, inserted, a_box, since_reset, pred, probe>>
sys_vars == <<rv_vars, um_vars, lib_vars>>
vars == <<tree_vars, aborted, rcb_vars, sys_vars>>

\* ------------------------------------------------------------------------
\* Bounds of the model
\* ------------------------------------------------------------------------
MaxRemoves == 1

\* Points whose first twelve grow a tree of three page levels
CloudDeep ==
  << <<2, 2>>, <<1, 2>>, <<0, 0>>, <<2, 0>>, <<0, 0>>, <<0, 0>>, <<2, 0>>,
     <<1, 1>>, <<2, 2>>, <<1, 1>>, <<1, 1>>, <<0, 1>>, <<0, 0>>, <<2, 1>> >>
\* Five points, two of them coincident, that split the root once
CloudSmall == << <<0, 2>>, <<0, 1>>, <<0, 1>>, <<1, 1>>, <<2, 1>> >>
\* A cloud of coincident points
CloudSame == << <<1, 1>>, <<1, 1>>, <<1, 1>>, <<1, 1>>, <<1, 1>>, <<1, 1>> >>

Points(cloud) == [i \in 1..Len(cloud) |-> PointBox(cloud[i])]
Clouds == {Points(CloudDeep), Points(CloudSmall), Points(CloudSame)}
Strategies == {"Linear", "Quadratic"}

\* The value the caller stores for bound i of the cloud: (bound, key)
ValueAt(cloud, i) == [bound |-> cloud[i], key |-> i - 1]
\* A value that is never inserted
Stranger == [bound |-> PointBox(<<1, 0>>), key |-> 99]

\* pages: the pages of the tree before an insert or a remove, the two pages a
\* split returned
NoOp == [op |-> "none", arg |-> NoValue, pages |-> {}]
NoAnswer ==
  [kind |-> "none", bound |-> BoxReset, K |-> 0, out |-> <<>>, count |-> 0,
   ex_out |-> <<>>, ex_count |-> 0]

\* No partitioner is running
RCBIdle ==
  /\ comm_size = 0
  /\ adapt = <<>>
  /\ pc = <<>>
  /\ rtree = <<>>
  /\ local_split_list = <<>>
  /\ boxes_to_split = <<>>
  /\ final_boxes = EmptySet
  /\ offered = <<>>
  /\ rounds = 0
  /\ weighted_splits = <<>>
  /\ m_bounds = <<>>

\* No exchange is running
RendezvousIdle ==
  /\ num_ranks = 0
  /\ transport = "eager"
  /\ xyz = <<>>
  /\ at = <<>>
  /\ loop_rank = <<>>
  /\ target_sds = <<>>
  /\ source_sds = <<>>
  /\ target_bounds_by_rank = <<>>
  /\ source_bounds_by_rank = <<>>
  /\ recv_requests = <<>>
  /\ send_requests = <<>>
  /\ send_to_ranks = <<>>
  /\ recv_from_ranks = <<>>
  /\ global_source_sds = <<>>
  /\ history = <<>>

\* No UniqueMap exists
UniqueMapIdle ==
  /\ vals = <<>>
  /\ unique_idx_ = <<>>
  /\ non_unique_map_ = <<>>
  /\ unique_vals = <<>>
  /\ expanded_vals = <<>>
  /\ um_at = <<>>

\* No multiset, box or predicate object of its own is under test
LibraryIdle ==
  /\ data_set = <<>>
  /\ count = 0
  /\ inserted = <<>>
  /\ a_box = BoxReset
  /\ since_reset = <<>>
  /\ pred = <<>>
  /\ probe = <<>>

\* Both indexes are default-constructed; the caller has a cloud to insert
Start(clouds) ==
  /\ strategy \in Strategies
  /\ input \in clouds
  /\ nins = 0
  /\ nrem = 0
  /\ nodes = <<>>
  /\ root = 0
  /\ ex_values = <<>>
  /\ expected = {}
  /\ aborted = ""
  /\ last = NoOp
  /\ answer = NoAnswer
  /\ RCBIdle
  /\ RendezvousIdle
  /\ UniqueMapIdle
  /\ LibraryIdle

Init == Start(Clouds)

\* The caller mutates the indexes, then asks its questions.  A query is a
\* const member function: it leaves both indexes as they are, so a question
\* asked after another one, or a mutation made after a question, reaches
\* no state of the indexes that is not reached without the earlier question
Asking == answer # NoAnswer

\* RTree::insert(value): wrap the value in a new leaf and place it
RTreeInsert(st, h, r, v) ==
  LET new_leaf == Len(h) + 1
  IN insert(st, Append(h, NewLeaf(v)), r, new_leaf)

\* RTree::remove(value)
RTreeRemove(st, h, r, v) == remove(st, h, r, v)

\* The indexes after insert(v) returned r from the R-tree
Inserted(v, r) ==
  /\ nins' = nins + 1
  /\ expected' = expected \cup {v}
  /\ last' = [op |-> "insert", arg |-> v, pages |-> PagesOf(nodes, root)]
  /\ IF r.err = ""
       THEN /\ nodes' = r.h
            /\ root' = r.ret
            /\ ex_values' = ExhaustiveInsert(ex_values, v)
            /\ aborted' = ""
       ELSE /\ UNCHANGED <<nodes, root, ex_values>>
            /\ aborted' = r.err

\* The caller inserts the next value of the cloud into the R-tree and into
\* the Exhaustive index
Insert ==
  /\ aborted = ""
  /\ ~Asking
  /\ nins < Len(input)
  /\ Inserted(ValueAt(input, nins + 1),
              RTreeInsert(strategy, nodes, root, ValueAt(input, nins + 1)))
  /\ answer' = NoAnswer
  /\ UNCHANGED <<strategy, input, nrem, rcb_vars, sys_vars>>

\* The R-tree after remove(v) returned r
Removed(v, r) ==
  /\ nrem' = nrem + 1
  /\ expected' = expected \ {v}
  /\ last' = [op |-> "remove", arg |-> v, pages |-> PagesOf(nodes, root)]
  /\ IF r.err = ""
       THEN /\ nodes' = r.h /\ root' = r.ret /\ aborted' = ""
            /\ ex_values' = ExhaustiveRemove(ex_values, v)
       ELSE UNCHANGED <<nodes, root, ex_values>> /\ aborted' = r.err

\* The caller removes v from the R-tree and from the Exhaustive index
Remove(v) ==
  /\ aborted = ""
  /\ ~Asking
  /\ nrem < MaxRemoves
  /\ Removed(v, RTreeRemove(strategy, nodes, root, v))
  /\ answer' = NoAnswer
  /\ UNCHANGED <<strategy, input, nins, rcb_vars, sys_vars>>

\* RTree::clear(): the root pointer is reset
RTreeClear(r) == 0

\* RTree::size(): return 0
RTreeSize(h, r) == 0

\* RTree::empty(): return (root_node_ptr_), the pointer taken as a bool
RTreeEmpty(r) == r # 0

\* The caller clears both indexes (Exhaustive::clear empties _values); no
\* node can be reached from the tree any more
Clear ==
  /\ aborted = ""
  /\ ~Asking
  /\ root' = RTreeClear(root)
  /\ nodes' = <<>>
  /\ ex_values' = <<>>
  /\ expected' = {}
  /\ last' = [op |-> "clear", arg |-> NoValue, pages |-> PagesOf(nodes, root)]
  /\ UNCHANGED <<strategy, input, nins, nrem, aborted, answer, rcb_vars, sys_vars>>

\* The values a caller may ask to remove: any value of the cloud inserted so
\* far (stored or already removed) and one that was never inserted
Removable == {ValueAt(input, i) : i \in 1..nins} \cup {Stranger}

Next ==
  \/ Insert
  \/ \E v \in Removable : Remove(v)
  \/ Clear

Spec == Init /\ [][Next]_vars

\* ------------------------------------------------------------------------
\* Queries: the caller puts the same question to both indexes
\* ------------------------------------------------------------------------
MaxK == 3

\* Boxes, segments and points, some with the same bound
CloudBoxes ==
  << MkBox(<<0, 0>>, <<1, 1>>), MkBox(<<2, 2>>, <<3, 3>>), MkBox(<<1, 1>>, <<2, 2>>),
     MkBox(<<0, 2>>, <<0, 3>>), MkBox(<<3, 0>>, <<3, 0>>), MkBox(<<1, 1>>, <<2, 2>>),
     MkBox(<<0, 0>>, <<3, 3>>), MkBox(<<2, 0>>, <<3, 1>>) >>
\* Points at equal distances from the targets
CloudTies == << <<0, 0>>, <<1, 0>>, <<1, 0>>, <<2, 1>>, <<0, 2>>, <<2, 2>>, <<1, 1>> >>

QueryClouds == {CloudBoxes, Points(CloudTies)}
QueryBoxes ==
  {PointBox(<<1, 1>>), MkBox(<<1, 1>>, <<2, 2>>), MkBox(<<0, 0>>, <<3, 3>>)}

\* What dereferencing crbegin() of an empty set does: the process faults, or
\* some value is read.  The set can only be empty there when K = 0
UBOutcomes(K) ==
  IF K = 0
    THEN {[fault |-> TRUE, read |-> 0]}
           \cup {[fault |-> FALSE, read |-> g] : g \in {Lowest, 0, FltMax}}
    ELSE {[fault |-> FALSE, read |-> 0]}

\* The answers t of the R-tree and e of the Exhaustive index
Answered(kind, qb, K, t, e) ==
  [kind |-> kind, bound |-> qb, K |-> K, out |-> t.out, count |-> t.count,
   ex_out |-> e.out, ex_count |-> e.count]

QuerySpatial(kind, qb) ==
  /\ aborted = ""
  /\ ~Asking
  /\ answer' = Answered(kind, qb, 0, RTreeQuerySpatial(nodes, root, kind, qb),
                        ExhaustiveQuerySpatial(ex_values, kind, qb))
  /\ UNCHANGED <<strategy, input, nins, nrem, nodes, root, ex_values, expected, aborted, last, rcb_vars, sys_vars>>

\* A query that faulted returns nothing
AnsweredNearest(qb, K, t, e) ==
  IF t.err = ""
    THEN /\ answer' = Answered("Nearest", qb, K, t, e)
         /\ aborted' = ""
    ELSE /\ answer' = [kind |-> "Nearest", bound |-> qb, K |-> K,
                       out |-> <<>>, count |-> 0, ex_out |-> <<>>, ex_count |-> 0]
         /\ aborted' = t.err

QueryNearest(qb, K, ub) ==
  /\ aborted = ""
  /\ ~Asking
  /\ AnsweredNearest(qb, K, RTreeQueryNearest(nodes, root, qb, K, ub),
                     ExhaustiveQueryNearest(ex_values, qb, K))
  /\ UNCHANGED <<strategy, input, nins, nrem, nodes, root, ex_values, expected, last, rcb_vars, sys_vars>>

InitQuery == Start(QueryClouds)

NextQuery ==
  \/ Insert
  \/ \E v \in Removable : Remove(v)
  \/ \E kind \in SpatialKinds, qb \in QueryBoxes : QuerySpatial(kind, qb)
  \/ \E qb \in QueryBoxes, K \in 0..MaxK : \E ub \in UBOutcomes(K) : QueryNearest(qb, K, ub)

SpecQuery == InitQuery /\ [][NextQuery]_vars

\* ------------------------------------------------------------------------
\* split_node on its own: a page that an insert has just overfilled
\* ------------------------------------------------------------------------
\* The bounds the children of the overfull page are drawn from
SplitBounds ==
  {PointBox(<<0, 0>>), PointBox(<<2, 1>>),
   MkBox(<<0, 0>>, <<1, 1>>), MkBox(<<1, 0>>, <<2, 2>>)}
SplitInputs == [1..(max_children + 1) -> SplitBounds]

\* The page that results from inserting leaves for bounds i.. of the cloud
\* into page p
RECURSIVE Filled(_, _, _, _)
Filled(h, p, cloud, i) ==
  IF i > Len(cloud) THEN h
  ELSE LET leaf == Len(h) + 1
       IN Filled(NodeInsert(Append(h, NewLeaf(ValueAt(cloud, i))), p, leaf), p, cloud, i + 1)

InitSplit ==
  /\ strategy \in Strategies
  /\ input \in SplitInputs
  /\ nins = Len(input)
  /\ nrem = 0
  /\ nodes = Filled(<<NewPage>>, 1, input, 1)
  /\ root = 1
  /\ ex_values = <<>>
  /\ expected = {ValueAt(input, i) : i \in 1..Len(input)}
  /\ aborted = ""
  /\ last = NoOp
  /\ answer = NoAnswer
  /\ RCBIdle
  /\ RendezvousIdle
  /\ UniqueMapIdle
  /\ LibraryIdle

\* The arena after split_node returned s
SplitDone(s) ==
  IF s.err = ""
    THEN /\ nodes' = s.h
         /\ last' = [op |-> "split", arg |-> NoValue, pages |-> {s.a, s.b}]
         /\ aborted' = ""
    ELSE /\ nodes' = nodes
         /\ last' = [op |-> "split", arg |-> NoValue, pages |-> {}]
         /\ aborted' = s.err

\* expand_tree calls split_node on the overfull page
SplitNode ==
  /\ aborted = ""
  /\ last = NoOp
  /\ NodeSize(nodes, root) > max_children
  /\ SplitDone(split_node(strategy, nodes, root))
  /\ UNCHANGED <<strategy, input, nins, nrem, root, ex_values, expected, answer, rcb_vars, sys_vars>>

NextSplit == SplitNode

SpecSplit == InitSplit /\ [][NextSplit]_vars

\* ------------------------------------------------------------------------
\* RCB partitioner (partition/rcb.hpp).  init runs on every rank of the
\* communicator; the ranks meet in all_gather and in all_reduce.  The work
\* list and the set of final boxes are computed by every rank from the same
\* reduced values, so the model keeps one copy of each.  Points are given in
\* units of Grid and the weights are positive integers: centers, weighted
\* medians and their quotient are exact in double arithmetic.
\* ------------------------------------------------------------------------
MaxRanks == 5

Ranks == 1..comm_size

\* The number of points the adaptor was constructed with
local_count(a) == Len(a)
\* weight[key]: the copy of the adaptor's weights
WeightOf(a, key) == a[key + 1].w

NoTree == [h |-> <<>>, ret |-> 0, err |-> ""]

\* A build that stops after the first point
BuildTree_first(a, i, t) ==
  IF local_count(a) = 0 THEN t
  ELSE RTreeInsert("Quadratic", t.h, t.ret, [bound |-> PointBox(a[1].p), key |-> 0])

\* for (i < local_count) rtree.insert(index_type(box(point, point), i))
RECURSIVE BuildTree(_, _, _)
BuildTree(a, i, t) ==
  IF i > local_count(a) \/ t.err # "" THEN t
  ELSE BuildTree(a, i + 1,
         RTreeInsert("Quadratic", t.h, t.ret, [bound |-> PointBox(a[i].p), key |-> i - 1]))

\* global_box = bounds_by_rank[0]; for (i >= 1) global_box.stretch(...)
RECURSIVE GlobalFrom(_, _, _)
GlobalFrom(bs, i, acc) ==
  IF i > Len(bs) THEN acc ELSE GlobalFrom(bs, i + 1, BoxStretch(acc, bs[i]))

\* all_gather of rtree.bounds()
bounds_by_rank == [r \in Ranks |-> getBound(rtree[r].h, rtree[r].r)]

global_box == next_larger(GlobalFrom(bounds_by_rank, 2, bounds_by_rank[1]))

small_partition_up(total_partition) == (total_partition + 1) \div 2
small_partition(total_partition) == total_partition \div 2
large_partition_whole(total_partition) == total_partition
large_partition(total_partition) == total_partition - total_partition \div 2

\* rtree.query(ContainedByNonInclusive(search_box), back_inserter(contained_points))
contained_points(t, search_box) ==
  RTreeQuerySpatial(t.h, t.r, "ContainedByNonInclusive", search_box).out

\* std::sort by center(long_dim): where v goes among the sorted sq
SortedInsert(sq, v, k) == SubSeq(sq, 1, k) \o <<v>> \o SubSeq(sq, k + 1, Len(sq))

SortedPlace(sq, v, d) ==
  SortedInsert(sq, v,
    Cardinality({i \in 1..Len(sq) : center(sq[i].bound, d) <= center(v.bound, d)}))

RECURSIVE SortByCenter(_, _, _, _)
SortByCenter(vs, d, i, acc) ==
  IF i > Len(vs) THEN acc ELSE SortByCenter(vs, d, i + 1, SortedPlace(acc, vs[i], d))

RECURSIVE SumTo(_, _)
SumTo(ws, i) == IF i = 0 THEN 0 ELSE ws[i] + SumTo(ws, i - 1)

\* std::partial_sum in place
partial_sum(ws) == [i \in 1..Len(ws) |-> SumTo(ws, i)]

\* contained_weights after the partial sum
contained_weights(a, points) ==
  partial_sum([i \in 1..Len(points) |-> WeightOf(a, points[i].key)])

\* std::upper_bound(weights, ratio_partition * weights.back()) as a distance
\* from begin: the weights ascend, so it is the number of them that are not
\* greater than the value.  ratio * back < w is small * back < w * total.
upper_bound(cw, small, total) ==
  Cardinality({i \in 1..Len(cw) : cw[i] * total <= small * cw[Len(cw)]})

\* What reading past a vector can give: a fault, or some value
Garbage == {0 - FltMax, 0, FltMax}
NoUB == [fault |-> FALSE, read |-> 0]
UBOutcomesRCB ==
  {[fault |-> TRUE, read |-> 0]} \cup {[fault |-> FALSE, read |-> g] : g \in Garbage}

\* median_value * total_weight and total_weight of one box.  back() of an
\* empty vector and contained_points[size()] are undefined behaviour.
PackMedian(points, cw, d, median_index, ub) ==
  IF median_index >= Len(points)
  THEN [fault |-> ub.fault, first |-> ub.read, second |-> 1]
  ELSE [fault |-> FALSE,
        first |-> center(points[median_index + 1].bound, d) * cw[Len(cw)],
        second |-> cw[Len(cw)]]

PackWeighed(points, cw, d, total, ub) ==
  PackMedian(points, cw, d, upper_bound(cw, small_partition(total), total), ub)

PackSorted(a, points, d, total, ub) ==
  PackWeighed(points, contained_weights(a, points), d, total, ub)

\* The body of the first for loop: the entry of local_split_list for one box
LocalSplit(a, t, search_box, total, d, ub) ==
  PackSorted(a, SortByCenter(contained_points(t, search_box), d, 1, <<>>), d, total, ub)

LocalSplits(a, t, work, ub) ==
  [k \in 1..Len(work) |->
     LocalSplit(a, t, work[k].box, work[k].n, longest_dimension(work[k].box), ub)]

\* Some box of the work list holds none of the rank's points
Starved(t, work) ==
  \E k \in 1..Len(work) : contained_points(t, work[k].box) = <<>>

\* The lambda handed to all_reduce
Combine(a, b) == [n \in 1..Len(a) |-> b[n]]

\* boost::mpi::all_reduce with an operation that is not declared
\* commutative: the values are combined in rank order
RECURSIVE AllReduce(_, _, _)
AllReduce(lists, r, acc) ==
  IF r > Len(lists) THEN acc ELSE AllReduce(lists, r + 1, Combine(acc, lists[r]))

global_split_list == AllReduce(local_split_list, 2, local_split_list[1])

\* weighted_split = global_split_list[index].first / global_split_list[index].second
WeightedSplits(gl) == [k \in 1..Len(gl) |-> gl[k].first \div gl[k].second]

\* if (1 == partition) final_boxes.insert(bound) else new_boxes_to_split.emplace_back
Place(acc, bound, partition) ==
  IF partition = 1
  THEN [final |-> SetInsert(acc.final, bound), work |-> acc.work,
        offered |-> Append(acc.offered, bound)]
  ELSE [final |-> acc.final, work |-> Append(acc.work, [box |-> bound, n |-> partition]),
        offered |-> acc.offered]

\* low_bound takes the split as its max corner, hgh_bound as its min corner
SplitBox(acc, search_box, total, long_dim, weighted_split) ==
  Place(Place(acc, WithFace(search_box, "max", long_dim, weighted_split),
              small_partition(total)),
        WithFace(search_box, "min", long_dim, weighted_split),
        large_partition(total))

\* The second for loop over boxes_to_split
RECURSIVE SplitAll(_, _, _, _)
SplitAll(work, gl, i, acc) ==
  IF i > Len(work) THEN acc
  ELSE SplitAll(work, gl, i + 1,
         SplitBox(acc, work[i].box, work[i].n, longest_dimension(work[i].box),
                  gl[i].first \div gl[i].second))

\* Every rank has built its tree or died on the way: rtree.bounds()
\* dereferences the root, which is null when the rank has no points
Built(r, t) ==
  IF t.err # ""
  THEN aborted' = t.err /\ UNCHANGED <<rtree, pc>>
  ELSE IF t.ret = 0
  THEN aborted' = "bounds: root_node_ptr_ is null" /\ UNCHANGED <<rtree, pc>>
  ELSE /\ rtree' = [rtree EXCEPT ![r] = [h |-> t.h, r |-> t.ret]]
       /\ pc' = [pc EXCEPT ![r] = "gather"]
       /\ aborted' = aborted

\* Rank r copies the weights, builds its R-tree and takes its bound
RCBBuild(r) ==
  /\ aborted = ""
  /\ pc[r] = "build"
  /\ Built(r, BuildTree(adapt[r], 1, NoTree))
  /\ UNCHANGED <<tree_vars, sys_vars, comm_size, adapt, local_split_list, boxes_to_split,
                 final_boxes, offered, rounds, weighted_splits, m_bounds>>

Gathered(box) ==
  IF comm_size = 1
  THEN /\ final_boxes' = SetInsert(final_boxes, box)
       /\ offered' = Append(offered, box)
       /\ boxes_to_split' = <<>>
       /\ pc' = [r \in Ranks |-> "copy"]
  ELSE /\ final_boxes' = final_boxes
       /\ offered' = offered
       /\ boxes_to_split' = <<[box |-> box, n |-> comm_size]>>
       /\ pc' = [r \in Ranks |-> "median"]

\* all_gather, the global box, next_larger and the first work list
RCBGather ==
  /\ aborted = ""
  /\ \A r \in Ranks : pc[r] = "gather"
  /\ Gathered(global_box)
  /\ UNCHANGED <<tree_vars, sys_vars, aborted, comm_size, adapt, rtree, local_split_list,
                 rounds, weighted_splits, m_bounds>>

Packed(r, splits) ==
  IF \E k \in 1..Len(splits) : splits[k].fault
  THEN aborted' = "read past contained_weights" /\ UNCHANGED <<local_split_list, pc>>
  ELSE /\ local_split_list' =
            [local_split_list EXCEPT ![r] =
               [k \in 1..Len(splits) |-> [first |-> splits[k].first, second |-> splits[k].second]]]
       /\ pc' = [pc EXCEPT ![r] = "reduce"]
       /\ aborted' = aborted

\* Rank r runs the first for loop of a round of the while loop
RCBMedian(r) ==
  /\ aborted = ""
  /\ pc[r] = "median"
  /\ \E ub \in IF Starved(rtree[r], boxes_to_split) THEN UBOutcomesRCB ELSE {NoUB} :
       Packed(r, LocalSplits(adapt[r], rtree[r], boxes_to_split, ub))
  /\ UNCHANGED <<tree_vars, sys_vars, comm_size, adapt, rtree, boxes_to_split, final_boxes, offered, rounds,
                 weighted_splits, m_bounds>>

Reduced(acc) ==
  /\ final_boxes' = acc.final
  /\ offered' = acc.offered
  /\ rounds' = rounds + 1
  /\ boxes_to_split' = acc.work
  /\ pc' = [r \in Ranks |-> IF acc.work = <<>> THEN "copy" ELSE "median"]

\* all_reduce and the second for loop: the end of a round of the while loop
RCBReduce ==
  /\ aborted = ""
  /\ \A r \in Ranks : pc[r] = "reduce"
  /\ Reduced(SplitAll(boxes_to_split, global_split_list, 1,
                      [final |-> final_boxes, work |-> <<>>, offered |-> offered]))
  /\ weighted_splits' = WeightedSplits(global_split_list)
  /\ local_split_list' = [r \in Ranks |-> <<>>]
  /\ UNCHANGED <<tree_vars, sys_vars, aborted, comm_size, adapt, rtree, m_bounds>>

\* Rank r copies the set to m_bounds
RCBCopy(r) ==
  /\ aborted = ""
  /\ pc[r] = "copy"
  /\ m_bounds' = [m_bounds EXCEPT ![r] = SetElements(final_boxes)]
  /\ pc' = [pc EXCEPT ![r] = "done"]
  /\ UNCHANGED <<tree_vars, sys_vars, aborted, comm_size, adapt, rtree, local_split_list,
                 boxes_to_split, final_boxes, offered, rounds, weighted_splits>>

\* Clouds of (x, y, weight); rank r of R gets the points r, r + R, ...
\* Twelve points along x; with three ranks the last one holds x = 5, 5, 5, 9
CloudLine ==
  << <<0, 0, 1>>, <<1, 1, 1>>, <<5, 0, 1>>, <<2, 1, 1>>, <<3, 0, 1>>, <<5, 0, 1>>,
     <<6, 0, 1>>, <<7, 1, 1>>, <<5, 0, 1>>, <<8, 1, 1>>, <<9, 0, 1>>, <<9, 0, 1>> >>
\* Points spread over a plane that is taller than wide after the first cut
CloudPlane ==
  << <<0, 0, 1>>, <<1, 7, 1>>, <<2, 3, 1>>, <<3, 9, 1>>, <<4, 1, 1>>, <<5, 6, 1>>,
     <<6, 2, 1>>, <<7, 8, 1>>, <<8, 4, 1>>, <<9, 5, 1>>, <<10, 0, 1>>, <<11, 7, 1>> >>
\* Unequal weights
CloudWeighted ==
  << <<0, 0, 3>>, <<2, 1, 1>>, <<4, 0, 2>>, <<6, 1, 1>>,
     <<8, 0, 1>>, <<10, 1, 2>>, <<12, 0, 1>>, <<14, 1, 3>> >>
\* Every rank holds its own stretch of x
CloudApart ==
  << <<0, 0, 1>>, <<10, 0, 1>>, <<20, 1, 1>>, <<30, 1, 1>>,
     <<1, 1, 1>>, <<11, 1, 1>>, <<21, 0, 1>>, <<31, 0, 1>> >>
\* Fewer points than ranks
CloudPair == << <<0, 0, 1>>, <<3, 1, 1>> >>

RCBClouds == {CloudLine, CloudPlane, CloudWeighted, CloudApart, CloudPair}

Deal(cloud, R, r) ==
  [k \in 1..((Len(cloud) - r) \div R + 1) |->
     [p |-> <<Grid * cloud[r + (k - 1) * R][1], Grid * cloud[r + (k - 1) * R][2]>>,
      w |-> cloud[r + (k - 1) * R][3]]]

InitRCB ==
  /\ strategy = "Quadratic"
  /\ input = <<>>
  /\ nins = 0
  /\ nrem = 0
  /\ nodes = <<>>
  /\ root = 0
  /\ ex_values = <<>>
  /\ expected = {}
  /\ aborted = ""
  /\ last = NoOp
  /\ answer = NoAnswer
  /\ comm_size \in 1..MaxRanks
  /\ adapt \in {[r \in 1..comm_size |-> Deal(cloud, comm_size, r)] : cloud \in RCBClouds}
  /\ pc = [r \in 1..comm_size |-> "build"]
  /\ rtree = [r \in 1..comm_size |-> [h |-> <<>>, r |-> 0]]
  /\ local_split_list = [r \in 1..comm_size |-> <<>>]
  /\ boxes_to_split = <<>>
  /\ final_boxes = EmptySet
  /\ offered = <<>>
  /\ rounds = 0
  /\ weighted_splits = <<>>
  /\ m_bounds = [r \in 1..comm_size |-> <<>>]
  /\ RendezvousIdle
  /\ UniqueMapIdle
  /\ LibraryIdle

NextRCB ==
  \/ \E r \in Ranks : RCBBuild(r)
  \/ RCBGather
  \/ \E r \in Ranks : RCBMedian(r)
  \/ RCBReduce
  \/ \E r \in Ranks : RCBCopy(r)

SpecRCB == InitRCB /\ [][NextRCB]_vars

\* ------------------------------------------------------------------------
\* Rendezvous exchange (test/system/system.cpp, main).  Ranks are numbered
\* from 1.  isend and irecv post a request and return; wait blocks until
\* the request is complete.  A receive is complete when the matching
\* message has arrived.  A send is complete at once on an eager transport
\* and, on an unbuffered one, only when the destination has posted the
\* matching receive.  Coordinates are multiples of 2 * bbox_scale_den, so
\* that scaled bounds are exact.
\* ------------------------------------------------------------------------
MaxWorld == 3
\* bbox_scale = 1.10
bbox_scale_num == 11
bbox_scale_den == 10

World == 1..num_ranks

\* bound.scale(f) with f = num / den: the half-extent of every dimension is
\* multiplied by f and the center is kept
scale(b, num, den) ==
  MkBox([i \in Dims |->
           ((b.min[i] + b.max[i]) * den - (b.max[i] - b.min[i]) * num) \div (2 * den)],
        [i \in Dims |->
           ((b.min[i] + b.max[i]) * den + (b.max[i] - b.min[i]) * num) \div (2 * den)])

\* for (i < xyz.size()) sds.insert(value_type(bound_type(xyz[i], xyz[i]), i))
RECURSIVE BuildIndex(_, _, _)
BuildIndex(pts, i, t) ==
  IF i > Len(pts) \/ t.err # "" THEN t
  ELSE BuildIndex(pts, i + 1,
         RTreeInsert("Quadratic", t.h, t.ret, [bound |-> PointBox(pts[i]), key |-> i - 1]))

\* for ([remote_bnd, remote_id] : pairs_from_rank)
\*   global_source_sds.insert(global_source_value_type(remote_bnd, rank, remote_id))
RECURSIVE InsertReceived(_, _, _, _)
InsertReceived(pairs, rank, i, t) ==
  IF i > Len(pairs) \/ t.err # "" THEN t
  ELSE InsertReceived(pairs, rank, i + 1,
         RTreeInsert("Quadratic", t.h, t.ret,
                     [bound |-> pairs[i].bound, key |-> <<rank, pairs[i].key>>]))

SetMin(S) == CHOOSE m \in S : \A x \in S : m <= x

\* The keys of a std::map that a range-for has still to visit
KeysAfter(map, k) == {j \in DOMAIN map : j > k}

\* Loops sending before receiving
Order_sendfirst == <<"plan_send", "plan_recv", "wait_send", "wait_recv", "done">>

\* The loops of the exchange in the order in which main runs them
Order == <<"plan_recv", "plan_send", "wait_recv", "wait_send", "done">>

\* Where a rank goes on when it leaves the loop `where`; a range-for over an
\* empty recv_requests has no pass
Follows(where, recvs) ==
  LET i == CHOOSE j \in 1..Len(Order) : Order[j] = where
  IN  IF Order[i + 1] = "wait_recv" /\ recvs = {} THEN Order[i + 2] ELSE Order[i + 1]

\* One call more in the history of a rank
Called(me, call, peer) ==
  [history EXCEPT ![me] = Append(@, [call |-> call, peer |-> peer])]

\* The two trees of a rank are built, or the process died on the way;
\* bounds() of an empty tree dereferences a null root
Indexed(me, t, s) ==
  IF t.err # "" \/ s.err # ""
  THEN aborted' = "insert" /\ UNCHANGED <<target_sds, source_sds, at>>
  ELSE IF t.ret = 0 \/ s.ret = 0
  THEN aborted' = "bounds: root_node_ptr_ is null" /\ UNCHANGED <<target_sds, source_sds, at>>
  ELSE /\ target_sds' = [target_sds EXCEPT ![me] = [h |-> t.h, r |-> t.ret]]
       /\ source_sds' = [source_sds EXCEPT ![me] = [h |-> s.h, r |-> s.ret]]
       /\ at' = [at EXCEPT ![me] = "gather"]
       /\ aborted' = aborted

\* Rank me builds target_sds and source_sds
BuildIndexes(me) ==
  /\ aborted = ""
  /\ at[me] = "build"
  /\ \E t \in {BuildIndex(xyz[me].target, 1, NoTree)},
        s \in {BuildIndex(xyz[me].source, 1, NoTree)} : Indexed(me, t, s)
  /\ UNCHANGED <<tree_vars, rcb_vars, um_vars, lib_vars, num_ranks, transport, xyz, loop_rank,
                 target_bounds_by_rank, source_bounds_by_rank, recv_requests,
                 send_requests, send_to_ranks, recv_from_ranks, global_source_sds, history>>

\* The two all_gather calls
AllGather ==
  /\ aborted = ""
  /\ num_ranks > 0
  /\ \A r \in World : at[r] = "gather"
  /\ target_bounds_by_rank' =
       [r \in World |-> getBound(target_sds[r].h, target_sds[r].r)]
  /\ source_bounds_by_rank' =
       [r \in World |-> getBound(source_sds[r].h, source_sds[r].r)]
  /\ at' = [r \in World |-> Order[1]]
  /\ UNCHANGED <<tree_vars, aborted, rcb_vars, um_vars, lib_vars, num_ranks, transport, xyz,
                 loop_rank, target_sds, source_sds, recv_requests, send_requests,
                 send_to_ranks, recv_from_ranks, global_source_sds, history>>

\* A first loop that solicits no other rank
PlanRecv_unsolicited(me, rank, expect) ==
  /\ recv_requests' =
       [recv_requests EXCEPT
          ![me] = IF expect /\ rank = me THEN @ @@ (rank :> "posted") ELSE @]
  /\ recv_from_ranks' =
       [recv_from_ranks EXCEPT ![me] = IF expect /\ rank = me THEN @ @@ (rank :> <<>>) ELSE @]
  /\ history' = IF expect /\ rank = me THEN Called(me, "irecv", rank) ELSE history
  /\ loop_rank' = [loop_rank EXCEPT ![me] = IF rank = num_ranks THEN 0 ELSE rank]
  /\ at' = [at EXCEPT
              ![me] = IF rank < num_ranks THEN @
                      ELSE Follows("plan_recv", DOMAIN recv_requests[me]
                                                  \cup (IF expect /\ rank = me THEN {rank} ELSE {}))]

\* if (Intersects(expanded_my_target_bound, expanded_source_bound))
\*   recv_requests[rank] = world.irecv(rank, 0, recv_from_ranks[rank])
PlanRecv(me, rank, expect) ==
  /\ recv_requests' =
       [recv_requests EXCEPT ![me] = IF expect THEN @ @@ (rank :> "posted") ELSE @]
  /\ recv_from_ranks' =
       [recv_from_ranks EXCEPT ![me] = IF expect THEN @ @@ (rank :> <<>>) ELSE @]
  /\ history' = IF expect THEN Called(me, "irecv", rank) ELSE history
  /\ loop_rank' = [loop_rank EXCEPT ![me] = IF rank = num_ranks THEN 0 ELSE rank]
  /\ at' = [at EXCEPT
              ![me] = IF rank < num_ranks THEN @
                      ELSE Follows("plan_recv", DOMAIN recv_requests[me]
                                                  \cup (IF expect THEN {rank} ELSE {}))]

\* One pass of the first loop of rank me: the receive from the next rank
PostRecv(me) ==
  /\ aborted = ""
  /\ at[me] = "plan_recv"
  /\ PlanRecv(me, loop_rank[me] + 1,
       BoxIntersects(scale(target_bounds_by_rank[me], bbox_scale_num, bbox_scale_den),
                     source_bounds_by_rank[loop_rank[me] + 1]))
  /\ UNCHANGED <<tree_vars, aborted, rcb_vars, um_vars, lib_vars, num_ranks, transport, xyz,
                 target_sds, source_sds, target_bounds_by_rank, source_bounds_by_rank,
                 send_requests, send_to_ranks, global_source_sds>>

\* send_to_ranks.emplace(rank, search_results)
\* send_requests[rank] = world.isend(rank, 0, send_to_ranks[rank])
PlanSend(me, rank, search_results) ==
  /\ send_to_ranks' = [send_to_ranks EXCEPT ![me] = @ @@ (rank :> search_results)]
  /\ send_requests' =
       [send_requests EXCEPT
          ![me] = @ @@ (rank :> IF transport = "eager" THEN "complete" ELSE "posted")]
  /\ history' = Called(me, "isend", rank)
  /\ loop_rank' = [loop_rank EXCEPT ![me] = IF rank = num_ranks THEN 0 ELSE rank]
  /\ at' = [at EXCEPT ![me] =
              IF rank < num_ranks THEN @
              ELSE Follows("plan_send", DOMAIN recv_requests[me])]

\* One pass of the second loop of rank me: the send to the next rank
PostSend(me) ==
  /\ aborted = ""
  /\ at[me] = "plan_send"
  /\ \E search \in
          {RTreeQuerySpatial(source_sds[me].h, source_sds[me].r, "Intersects",
                             scale(target_bounds_by_rank[loop_rank[me] + 1],
                                   bbox_scale_num, bbox_scale_den))} :
       PlanSend(me, loop_rank[me] + 1, search.out)
  /\ UNCHANGED <<tree_vars, aborted, rcb_vars, um_vars, lib_vars, num_ranks, transport, xyz,
                 target_sds, source_sds, target_bounds_by_rank, source_bounds_by_rank,
                 recv_requests, recv_from_ranks, global_source_sds>>

\* The transport matches the send of rank s to rank r with the receive rank
\* r posted for rank s and moves the list
Deliver(s, r) ==
  /\ aborted = ""
  /\ r \in DOMAIN send_requests[s]
  /\ s \in DOMAIN recv_requests[r]
  /\ recv_requests[r][s] = "posted"
  /\ recv_requests' = [recv_requests EXCEPT ![r][s] = "complete"]
  /\ recv_from_ranks' = [recv_from_ranks EXCEPT ![r][s] = send_to_ranks[s][r]]
  /\ send_requests' = [send_requests EXCEPT ![s][r] = "complete"]
  /\ UNCHANGED <<tree_vars, aborted, rcb_vars, um_vars, lib_vars, num_ranks, transport, xyz, at,
                 loop_rank, target_sds, source_sds, target_bounds_by_rank,
                 source_bounds_by_rank, send_to_ranks, global_source_sds, history>>

\* The records of rank are in the global tree, or an insert died
Received(me, rank, t) ==
  IF t.err # ""
  THEN aborted' = t.err /\ UNCHANGED <<global_source_sds, history, loop_rank, at>>
  ELSE /\ global_source_sds' = [global_source_sds EXCEPT ![me] = [h |-> t.h, ret |-> t.ret, err |-> ""]]
       /\ history' = Called(me, "wait_recv", rank)
       /\ loop_rank' =
            [loop_rank EXCEPT ![me] = IF KeysAfter(recv_requests[me], rank) = {} THEN 0 ELSE rank]
       /\ at' = [at EXCEPT ![me] =
                   IF KeysAfter(recv_requests[me], rank) # {} THEN @
                   ELSE Follows("wait_recv", DOMAIN recv_requests[me])]
       /\ aborted' = aborted

\* A loop that reads the buffer without waiting on the request
RecvFrom_unwaited(me, rank) ==
  \E t \in {InsertReceived(recv_from_ranks[me][rank], rank, 1, global_source_sds[me])} :
    Received(me, rank, t)

RecvFrom(me, rank) ==
  /\ recv_requests[me][rank] = "complete"
  /\ \E t \in {InsertReceived(recv_from_ranks[me][rank], rank, 1, global_source_sds[me])} :
       Received(me, rank, t)

\* One pass of the loop over recv_requests: req.wait() returns and the
\* records received are inserted into global_source_sds
WaitRecv(me) ==
  /\ aborted = ""
  /\ at[me] = "wait_recv"
  /\ RecvFrom(me, SetMin(KeysAfter(recv_requests[me], loop_rank[me])))
  /\ UNCHANGED <<tree_vars, rcb_vars, um_vars, lib_vars, num_ranks, transport, xyz, target_sds,
                 source_sds, target_bounds_by_rank, source_bounds_by_rank,
                 recv_requests, send_requests, send_to_ranks, recv_from_ranks>>

SentTo(me, rank) ==
  /\ send_requests[me][rank] = "complete"
  /\ history' = Called(me, "wait_send", rank)
  /\ loop_rank' =
       [loop_rank EXCEPT ![me] = IF KeysAfter(send_requests[me], rank) = {} THEN 0 ELSE rank]
  /\ at' = [at EXCEPT ![me] =
              IF KeysAfter(send_requests[me], rank) # {} THEN @
              ELSE Follows("wait_send", DOMAIN recv_requests[me])]

\* One pass of the loop over send_requests: req.wait() returns
WaitSend(me) ==
  /\ aborted = ""
  /\ at[me] = "wait_send"
  /\ SentTo(me, SetMin(KeysAfter(send_requests[me], loop_rank[me])))
  /\ UNCHANGED <<tree_vars, aborted, rcb_vars, um_vars, lib_vars, num_ranks, transport, xyz,
                 target_sds, source_sds, target_bounds_by_rank, source_bounds_by_rank,
                 recv_requests, send_requests, send_to_ranks, recv_from_ranks,
                 global_source_sds>>

\* Points of the scenarios, in units of 2 * bbox_scale_den
At(x, y) == <<2 * bbox_scale_den * x, 2 * bbox_scale_den * y>>

\* Slabs along x: the sources of a rank reach into the next rank's targets
ScenarioNear(r) ==
  [target |-> <<At(3 * r - 3, 0), At(3 * r - 1, 2)>>,
   source |-> <<At(3 * r - 2, 1), At(3 * r, 1)>>]
\* Slabs far from each other
ScenarioFar(r) ==
  [target |-> <<At(10 * r, 0), At(10 * r + 1, 1)>>,
   source |-> <<At(10 * r, 1), At(10 * r + 1, 0)>>]
\* Every rank has targets all over the same square, and sources inside and
\* outside of it
ScenarioAll(r) ==
  [target |-> <<At(0, 0), At(4, 4)>>,
   source |-> <<At(r, 1), At(2, r), At(r + 4, r + 4)>>]
\* Rank 1 has sources in two corners and the other ranks' targets lie between
ScenarioCorners(r) ==
  [target |-> IF r = 1 THEN <<At(0, 0), At(1, 1)>> ELSE <<At(4, 4), At(5, 5)>>,
   source |-> IF r = 1 THEN <<At(0, 9), At(9, 0)>> ELSE <<At(4, 5), At(r, r)>>]

Scenarios(n) ==
  {[r \in 1..n |-> ScenarioNear(r)], [r \in 1..n |-> ScenarioFar(r)],
   [r \in 1..n |-> ScenarioAll(r)], [r \in 1..n |-> ScenarioCorners(r)]}

InitRendezvous ==
  /\ strategy = "Quadratic"
  /\ input = <<>>
  /\ nins = 0
  /\ nrem = 0
  /\ nodes = <<>>
  /\ root = 0
  /\ ex_values = <<>>
  /\ expected = {}
  /\ aborted = ""
  /\ last = NoOp
  /\ answer = NoAnswer
  /\ RCBIdle
  /\ UniqueMapIdle
  /\ LibraryIdle
  /\ num_ranks \in 1..MaxWorld
  /\ transport \in {"eager", "unbuffered"}
  /\ xyz \in Scenarios(num_ranks)
  /\ at = [r \in 1..num_ranks |-> "build"]
  /\ loop_rank = [r \in 1..num_ranks |-> 0]
  /\ target_sds = [r \in 1..num_ranks |-> [h |-> <<>>, r |-> 0]]
  /\ source_sds = [r \in 1..num_ranks |-> [h |-> <<>>, r |-> 0]]
  /\ target_bounds_by_rank = <<>>
  /\ source_bounds_by_rank = <<>>
  /\ recv_requests = [r \in 1..num_ranks |-> <<>>]
  /\ send_requests = [r \in 1..num_ranks |-> <<>>]
  /\ send_to_ranks = [r \in 1..num_ranks |-> <<>>]
  /\ recv_from_ranks = [r \in 1..num_ranks |-> <<>>]
  /\ global_source_sds = [r \in 1..num_ranks |-> NoTree]
  /\ history = [r \in 1..num_ranks |-> <<>>]

NextRendezvous ==
  \/ \E me \in World : BuildIndexes(me)
  \/ AllGather
  \/ \E me \in World : PostRecv(me)
  \/ \E me \in World : PostSend(me)
  \/ \E s, r \in World : Deliver(s, r)
  \/ \E me \in World : WaitRecv(me)
  \/ \E me \in World : WaitSend(me)

SpecRendezvous == InitRendezvous /\ [][NextRendezvous]_vars

\* ------------------------------------------------------------------------
\* UniqueMap (test/system/system.cpp).  A value is a std::array of doubles;
\* a double is modelled by its sign and its magnitude, so that the two
\* zeros are different values that compare equal.  Indices count from 0 as
\* in the code; sequences count from 1.
\* ------------------------------------------------------------------------
MaxVals == 3
MaxSetups == 2

PlusZero == [neg |-> FALSE, mag |-> 0]
MinusZero == [neg |-> TRUE, mag |-> 0]
PlusOne == [neg |-> FALSE, mag |-> 1]
\* operator== of double
DoubleEquals(a, b) == a = b \/ (a.mag = 0 /\ b.mag = 0)
\* operator== of std::array<double, N>
ArrayEquals(a, b) == \A d \in Dims : DoubleEquals(a[d], b[d])
\* T(): the element a resize appends
ValueInitialized == [d \in Dims |-> PlusZero]

\* unique_id_map.find(v): the entry of the key equal to v, 0 for end().
\* ArrayHasher combines std::hash<double>, which gives both zeros the same
\* hash, so equal keys meet in one bucket
Find(unique_id_map, v) ==
  IF \E k \in 1..Len(unique_id_map) : ArrayEquals(unique_id_map[k].first, v)
  THEN CHOOSE k \in 1..Len(unique_id_map) : ArrayEquals(unique_id_map[k].first, v)
  ELSE 0

\* A map that keeps what it held
Cleared_kept(v) == v

\* v.clear()
Cleared(v) == <<>>

\* The for loop of setup from position i on; idx and non are the two member
\* vectors
RECURSIVE SetupScan(_, _, _, _, _)
SetupScan(v, i, unique_id_map, idx, non) ==
  IF i >= Len(v) THEN [unique_idx_ |-> idx, non_unique_map_ |-> non]
  ELSE IF Find(unique_id_map, v[i + 1]) = 0
  THEN SetupScan(v, i + 1, Append(unique_id_map, [first |-> v[i + 1], second |-> i]),
                 Append(idx, i), non)
  ELSE SetupScan(v, i + 1, unique_id_map, idx,
                 Append(non, [first |-> i,
                              second |-> unique_id_map[Find(unique_id_map, v[i + 1])].second]))

\* v.resize(n)
Resize(v, n) == [k \in 1..n |-> IF k <= Len(v) THEN v[k] ELSE ValueInitialized]

reduce_to_unique(idx, vin) == [k \in 1..Len(idx) |-> vin[idx[k] + 1]]

\* for (i < unique_idx_.size()) vout[unique_idx_[i]] = vin[i]
RECURSIVE Scatter(_, _, _, _)
Scatter(vout, idx, vin, i) ==
  IF i >= Len(idx) THEN vout
  ELSE Scatter([vout EXCEPT ![idx[i + 1] + 1] = vin[i + 1]], idx, vin, i + 1)

\* A second loop that copies nothing
Duplicate_skipped(vout, non, i) == vout

\* for (i < non_unique_map_.size())
\*   vout[non_unique_map_[i].first] = vout[non_unique_map_[i].second]
RECURSIVE Duplicate(_, _, _)
Duplicate(vout, non, i) ==
  IF i >= Len(non) THEN vout
  ELSE Duplicate([vout EXCEPT ![non[i + 1].first + 1] = vout[non[i + 1].second + 1]],
                 non, i + 1)

expand_to_non_unique(idx, non, vin, vout) ==
  Duplicate(Scatter(Resize(vout, Len(idx) + Len(non)), idx, vin, 0), non, 0)

num_total == Len(unique_idx_) + Len(non_unique_map_)
num_unique == Len(unique_idx_)

\* The vectors of n values a caller passes
UMValues == {<<PlusZero, PlusZero>>, <<MinusZero, PlusZero>>, <<PlusOne, PlusZero>>}
UMVectors(n) == [1..n -> UMValues]

\* The member vectors after setup
SetUp(m) ==
  /\ unique_idx_' = m.unique_idx_
  /\ non_unique_map_' = m.non_unique_map_

\* map.setup(V)
UMSetup(V) ==
  /\ um_at.setups < MaxSetups
  /\ vals' = V
  /\ SetUp(SetupScan(V, 0, <<>>, Cleared(unique_idx_), Cleared(non_unique_map_)))
  /\ um_at' = [step |-> "setup", setups |-> um_at.setups + 1, vin |-> <<>>]
  /\ UNCHANGED <<tree_vars, aborted, rcb_vars, rv_vars, lib_vars, unique_vals, expanded_vals>>

\* map.reduce_to_unique(vin, unique_vals), vin as long as the vector the map
\* was set up with
UMReduce(vin) ==
  /\ um_at.step \in {"setup", "reduced", "expanded"}
  /\ unique_vals' = reduce_to_unique(unique_idx_, vin)
  /\ um_at' = [um_at EXCEPT !.step = "reduced", !.vin = vin]
  /\ UNCHANGED <<tree_vars, aborted, rcb_vars, rv_vars, lib_vars, vals, unique_idx_,
                 non_unique_map_, expanded_vals>>

\* map.expand_to_non_unique(unique_vals, expanded_vals)
UMExpand ==
  /\ um_at.step = "reduced"
  /\ expanded_vals' = expand_to_non_unique(unique_idx_, non_unique_map_, unique_vals,
                                           expanded_vals)
  /\ um_at' = [um_at EXCEPT !.step = "expanded"]
  /\ UNCHANGED <<tree_vars, aborted, rcb_vars, rv_vars, lib_vars, vals, unique_idx_,
                 non_unique_map_, unique_vals>>

InitUniqueMap ==
  /\ strategy = "Quadratic"
  /\ input = <<>>
  /\ nins = 0
  /\ nrem = 0
  /\ nodes = <<>>
  /\ root = 0
  /\ ex_values = <<>>
  /\ expected = {}
  /\ aborted = ""
  /\ last = NoOp
  /\ answer = NoAnswer
  /\ RCBIdle
  /\ RendezvousIdle
  /\ LibraryIdle
  /\ vals = <<>>
  /\ unique_idx_ = <<>>
  /\ non_unique_map_ = <<>>
  /\ unique_vals = <<>>
  /\ expanded_vals = <<>>
  /\ um_at = [step |-> "new", setups |-> 0, vin |-> <<>>]

NextUniqueMap ==
  \/ \E n \in 0..MaxVals : \E V \in UMVectors(n) : UMSetup(V)
  \/ \E vin \in UMVectors(Len(vals)) : UMReduce(vin)
  \/ UMExpand

SpecUniqueMap == InitUniqueMap /\ [][NextUniqueMap]_vars

\* ------------------------------------------------------------------------
\* TruncatedMultiSet on its own (spatial/common/truncated_multiset.hpp),
\* keyed as the queries key it: by the distance of a (distance, payload)
\* pair.  The payload, here the number of the insertion, tells equal keys
\* apart.
\* ------------------------------------------------------------------------
MaxInserts == 4
MaxDist == 2

\* The other parts of the program are not running
NothingElse ==
  /\ strategy = "Quadratic"
  /\ input = <<>>
  /\ nins = 0
  /\ nrem = 0
  /\ nodes = <<>>
  /\ root = 0
  /\ ex_values = <<>>
  /\ expected = {}
  /\ aborted = ""
  /\ last = NoOp
  /\ answer = NoAnswer
  /\ RCBIdle
  /\ RendezvousIdle
  /\ UniqueMapIdle

\* The next element a caller hands over, with key d
Element(d, k) == [dist |-> d, id |-> Len(inserted) + k]

\* _data_set.insert(first, last)
RECURSIVE MultisetInsertRange(_, _, _)
MultisetInsertRange(sq, es, i) ==
  IF i > Len(es) THEN sq ELSE MultisetInsertRange(MultisetEmplace(sq, es[i]), es, i + 1)

\* insert(value): _data_set.insert(value), truncate_()
TmsInsert(d) ==
  /\ Len(inserted) < MaxInserts
  /\ data_set' = truncate_(MultisetEmplace(data_set, Element(d, 1)), count)
  /\ inserted' = Append(inserted, Element(d, 1))
  /\ UNCHANGED <<tree_vars, aborted, rcb_vars, rv_vars, um_vars, count, a_box, since_reset,
                 pred, probe>>

\* emplace(args): _data_set.emplace(args), truncate_()
TmsEmplace(d) ==
  /\ Len(inserted) < MaxInserts
  /\ data_set' = TruncatedEmplace(data_set, Element(d, 1), count)
  /\ inserted' = Append(inserted, Element(d, 1))
  /\ UNCHANGED <<tree_vars, aborted, rcb_vars, rv_vars, um_vars, count, a_box, since_reset,
                 pred, probe>>

\* insert(first, last) of a range of two: _data_set.insert(first, last),
\* truncate_()
TmsInsertRange(d1, d2) ==
  /\ Len(inserted) + 2 <= MaxInserts
  /\ data_set' =
       truncate_(MultisetInsertRange(data_set, <<Element(d1, 1), Element(d2, 2)>>, 1), count)
  /\ inserted' = inserted \o <<Element(d1, 1), Element(d2, 2)>>
  /\ UNCHANGED <<tree_vars, aborted, rcb_vars, rv_vars, um_vars, count, a_box, since_reset,
                 pred, probe>>

\* TruncatedMultiSet(count)
InitMultiSet ==
  /\ NothingElse
  /\ data_set = <<>>
  /\ count \in 0..MaxK
  /\ inserted = <<>>
  /\ a_box = BoxReset
  /\ since_reset = <<>>
  /\ pred = <<>>
  /\ probe = <<>>

NextMultiSet ==
  \/ \E d \in 0..MaxDist : TmsInsert(d)
  \/ \E d \in 0..MaxDist : TmsEmplace(d)
  \/ \E d1, d2 \in 0..MaxDist : TmsInsertRange(d1, d2)

SpecMultiSet == InitMultiSet /\ [][NextMultiSet]_vars

\* ------------------------------------------------------------------------
\* A Box that is constructed, reset and stretched (spatial/bound/box.hpp)
\* ------------------------------------------------------------------------

MaxStretches == 2

\* The coordinates a corner is drawn from: the two ends of the value range
\* and a value between them
BoxCoords == {Lowest, 0, FltMax}

\* Box(min_corner, max_corner) checks nothing: min may lie above max
BoxInputs ==
  {MkBox(lo, hi) : lo \in [Dims -> BoxCoords], hi \in [Dims -> BoxCoords]}

\* box.reset()
BxReset ==
  /\ a_box' = BoxReset
  /\ since_reset' = <<BoxReset>>
  /\ UNCHANGED <<tree_vars, aborted, rcb_vars, rv_vars, um_vars, data_set, count, inserted,
                 pred, probe>>

\* box.stretch(b); since_reset lists the reset box and the boxes it has
\* been stretched by, and stays empty for a box that was never reset
BxStretch(b) ==
  /\ Len(since_reset) <= MaxStretches
  /\ a_box' = BoxStretch(a_box, b)
  /\ since_reset' = IF since_reset = <<>> THEN <<>> ELSE Append(since_reset, b)
  /\ UNCHANGED <<tree_vars, aborted, rcb_vars, rv_vars, um_vars, data_set, count, inserted,
                 pred, probe>>

\* Box(min_corner, max_corner), or Box() whose corners hold whatever the
\* storage held
InitBox ==
  /\ NothingElse
  /\ data_set = <<>>
  /\ count = 0
  /\ inserted = <<>>
  /\ a_box \in BoxInputs
  /\ since_reset = <<>>
  /\ pred = <<>>
  /\ probe = <<>>

NextBox ==
  \/ BxReset
  \/ \E b \in BoxInputs : BxStretch(b)

SpecBox == InitBox /\ [][NextBox]_vars

\* ------------------------------------------------------------------------
\* A spatial predicate applied to bounds (shared/predicate/spatial.hpp)
\* ------------------------------------------------------------------------

MaxCoord == 2

\* The bounds with corners on the grid, min <= max in every dimension:
\* points, segments and boxes
GridBoxes ==
  {b \in [min : [Dims -> 0..MaxCoord], max : [Dims -> 0..MaxCoord]] :
     \A i \in Dims : b.min[i] <= b.max[i]}

\* pred(bound, is_leaf): the caller keeps what it asked and the answer
PredApply(bound, is_leaf) ==
  /\ pred # <<>>
  /\ probe = <<>>
  /\ probe' = <<[bound |-> bound, is_leaf |-> is_leaf,
                 result |-> spatial_predicate(pred[1].kind, pred[1].qb, bound, is_leaf)]>>
  /\ UNCHANGED <<tree_vars, aborted, rcb_vars, rv_vars, um_vars, data_set, count, inserted,
                 a_box, since_reset, pred>>

\* One of the factories called with a query bound
InitPredicate ==
  /\ NothingElse
  /\ data_set = <<>>
  /\ count = 0
  /\ inserted = <<>>
  /\ a_box = BoxReset
  /\ since_reset = <<>>
  /\ \E kind \in SpatialKinds, qb \in GridBoxes : pred = <<[kind |-> kind, qb |-> qb]>>
  /\ probe = <<>>

NextPredicate ==
  \E bound \in GridBoxes, is_leaf \in BOOLEAN : PredApply(bound, is_leaf)

SpecPredicate == InitPredicate /\ [][NextPredicate]_vars

\* ------------------------------------------------------------------------
\* Properties of the tree
\* ------------------------------------------------------------------------
TreePages == PagesOf(nodes, root)
Stored == LeafValues(nodes, root)
\* The last operation was a remove that took a stored value out of the tree
RemovedStored ==
  /\ aborted = ""
  /\ last.op = "remove"
  /\ last.arg # Stranger
  /\ last.arg \notin Range(Stored)
\* The last operation dissolved pages of the tree it started from
Dissolved == last.pages \ TreePages

\* C1: after any sequence of inserts and removes every page other than the
\* root has at least min_children and at most max_children children.
C1_PageSizes ==
  \A p \in TreePages \ {root} :
    /\ NodeSize(nodes, p) >= min_children
    /\ NodeSize(nodes, p) <= max_children
\* A remove has just dissolved an undersized page of a tree that had split
\* before, and non-root pages remain
C1_Witness ==
  /\ RemovedStored
  /\ Dissolved # {}
  /\ TreePages \ {root} # {}

\* C2: the values held by the leaves are exactly the values inserted and not
\* afterwards removed, none lost and none duplicated; in particular
\* remove(v) deletes a stored v whichever page holds it.
C2_StoredIsExpected ==
  aborted = "" => /\ Range(Stored) = expected
                  /\ NoDuplicates(Stored)

\* The smallest box holding the bounds of all children of page p
SetMax(S) == CHOOSE m \in S : \A x \in S : m >= x
UnionOfChildren(h, p) ==
  LET bs == {getBound(h, h[p].kids[k]) : k \in 1..Len(h[p].kids)}
  IN IF bs = {} THEN BoxReset
     ELSE MkBox([i \in Dims |-> SetMin({b.min[i] : b \in bs})],
                [i \in Dims |-> SetMax({b.max[i] : b \in bs})])

\* C3: the bound cached in every page is the union of the bounds of its
\* children (the reset box for a page without children).
C3_BoundsAreUnions ==
  \A p \in TreePages : nodes[p].bound = UnionOfChildren(nodes, p)
\* A remove took away a leaf that alone determined a side of the bound of
\* every page above it: the root of a tree of several page levels no longer
\* covers the removed value
C3_Witness ==
  /\ RemovedStored
  /\ root # 0
  /\ NodeSize(nodes, root) > 0
  /\ isPage(nodes, front(nodes, root))
  /\ ~BoxContains(nodes[root].bound, last.arg.bound)

\* C4: the tree is balanced: all leaves lie at the same depth and the
\* children of a page are all leaves or all pages, also after a remove that
\* dissolved undersized pages above the leaf level.
C4_Balanced ==
  /\ Cardinality(LeafDepths(nodes, root, 0)) <= 1
  /\ \A p \in TreePages :
       \/ \A k \in 1..NodeSize(nodes, p) : isLeaf(nodes, nodes[p].kids[k])
       \/ \A k \in 1..NodeSize(nodes, p) : isPage(nodes, nodes[p].kids[k])

\* ------------------------------------------------------------------------
\* Properties of the queries
\* ------------------------------------------------------------------------
Count(sq, v) == Cardinality({i \in 1..Len(sq) : sq[i] = v})
SameElements(sa, sb) == \A v \in Range(sa) \cup Range(sb) : Count(sa, v) = Count(sb, v)
\* The tree has at least two page levels
TwoLevels == root # 0 /\ NodeSize(nodes, root) > 0 /\ isPage(nodes, front(nodes, root))
\* Squared distance from the target of the last query to a value's bound
Distance(v) == BoxNearest(v.bound, answer.bound)

\* C5: a spatial query on the R-tree emits exactly the stored values whose
\* bound satisfies the leaf test of the predicate, each once, and returns
\* their number; an Exhaustive index holding the same values gives the same
\* result set and number.
C5_SpatialQueryExact ==
  answer.kind \in SpatialKinds =>
    /\ \A v \in Range(Stored) \cup Range(answer.out) :
         Count(answer.out, v) =
           IF spatial_predicate(answer.kind, answer.bound, v.bound, TRUE)
             THEN Count(Stored, v) ELSE 0
    /\ answer.count = Len(answer.out)
    /\ SameElements(ex_values, Stored) =>
         /\ SameElements(answer.ex_out, answer.out)
         /\ answer.ex_count = answer.count
\* A spatial query of a split tree, put to both indexes holding the same
\* values, selected some of the stored values and rejected others
C5_Witness ==
  /\ answer.kind \in SpatialKinds \ {"Disjoint"}
  /\ TwoLevels
  /\ SameElements(ex_values, Stored)
  /\ answer.count > 1
  /\ answer.count < Len(Stored)

\* C6: the values a Nearest(bound, K) query returns are stored values, come
\* in non-decreasing order of squared distance to the target, and no stored
\* value that is not returned is strictly closer than a returned one.
C6_NearestOrdered ==
  answer.kind = "Nearest" =>
    /\ \A i \in 1..Len(answer.out) : answer.out[i] \in Range(Stored)
    /\ \A i, j \in 1..Len(answer.out) :
         i < j => Distance(answer.out[i]) <= Distance(answer.out[j])
    /\ \A v \in Range(Stored) \ Range(answer.out) :
         \A i \in 1..Len(answer.out) : ~(Distance(v) < Distance(answer.out[i]))
\* A Nearest query of a split tree returned values at different distances
\* and left out a stored value that is farther away
C6_Witness ==
  /\ answer.kind = "Nearest"
  /\ TwoLevels
  /\ Len(answer.out) >= 2
  /\ Distance(answer.out[1]) < Distance(answer.out[Len(answer.out)])
  /\ \E v \in Range(Stored) \ Range(answer.out) :
       Distance(v) > Distance(answer.out[Len(answer.out)])

\* C7: for the same inserted values, target and K the R-tree and the
\* Exhaustive index answer a Nearest query identically: the same multiset
\* of keys and the same count, also when fewer than K values are stored.
C7_NearestSameAsExhaustive ==
  (answer.kind = "Nearest" /\ aborted = "" /\ SameElements(ex_values, Stored)) =>
    /\ SameElements([i \in 1..Len(answer.out) |-> answer.out[i].key],
                    [i \in 1..Len(answer.ex_out) |-> answer.ex_out[i].key])
    /\ answer.count = answer.ex_count

\* C8: a Nearest(bound, K) query on a tree holding n values emits exactly
\* min(K, n) values and returns that number; a spatial query and a Nearest
\* query on an empty tree return no items.
C8_NearestCount ==
  /\ answer.kind = "Nearest" =>
       /\ aborted = ""
       /\ Len(answer.out) = Min2(answer.K, Len(Stored))
       /\ answer.count = Min2(answer.K, Len(Stored))
  /\ (answer.kind # "none" /\ Len(Stored) = 0) =>
       answer.count = 0 /\ answer.out = <<>>

\* ------------------------------------------------------------------------
\* Properties of split_node
\* ------------------------------------------------------------------------
\* The children the page held before the split
ChildrenBefore == {n \in 1..Len(nodes) : nodes[n].leaf}

\* C9: splitting a page that holds max_children + 1 children, with the
\* linear or the quadratic strategy, yields two new pages that together hold
\* exactly the original children, each of a size within
\* [min_children, max_children], and leaves the original page empty.
C9_SplitPartitions ==
  last.op = "split" =>
    /\ aborted = ""
    /\ Cardinality(last.pages) = 2
    /\ \A p \in last.pages :
         /\ isPage(nodes, p)
         /\ p # root
         /\ NodeSize(nodes, p) >= min_children
         /\ NodeSize(nodes, p) <= max_children
         /\ NoDuplicates(nodes[p].kids)
    /\ UNION {Range(nodes[p].kids) : p \in last.pages} = ChildrenBefore
    /\ \A p, q \in last.pages : p # q => Range(nodes[p].kids) \cap Range(nodes[q].kids) = {}
    /\ NodeSize(nodes, root) = 0

\* ------------------------------------------------------------------------
\* Properties of the partitioner
\* ------------------------------------------------------------------------
\* C10: when init has returned on a communicator of R ranks, the final
\* bounds vector of every rank has exactly R entries: no final box is lost
\* in the std::set that collects them.
C10_BoundsPerRank ==
  \A r \in Ranks : pc[r] = "done" => Len(m_bounds[r]) = comm_size

\* The sum over the ranks 1..r of the packed fields of box k
RECURSIVE SumFirst(_, _, _)
SumFirst(lists, k, r) ==
  IF r = 0 THEN 0 ELSE lists[r][k].first + SumFirst(lists, k, r - 1)

RECURSIVE SumSecond(_, _, _)
SumSecond(lists, k, r) ==
  IF r = 0 THEN 0 ELSE lists[r][k].second + SumSecond(lists, k, r - 1)

AllAt(where) == comm_size > 0 /\ \A r \in Ranks : pc[r] = where

\* C11: in every round the split value used for every pending box is the
\* weighted mean of the ranks' candidates: the sum over the ranks of
\* split_r * w_r divided by the sum over the ranks of w_r (stated without
\* the division: split * sum of w_r = sum of split_r * w_r).
C11_SplitIsWeightedMean ==
  [][(aborted = "" /\ AllAt("reduce"))
       => \A k \in 1..Len(boxes_to_split) :
            weighted_splits'[k] * SumSecond(local_split_list, k, comm_size)
              = SumFirst(local_split_list, k, comm_size)]_vars

\* The input points of all ranks, as (rank, index) slots
Slots == UNION {{<<r, k>> : k \in 1..Len(adapt[r])} : r \in Ranks}
PointAt(slot) == PointBox(adapt[slot[1]][slot[2]].p)
\* The final boxes that own the point of a slot
Owners(bounds, slot) ==
  {i \in 1..Len(bounds) : ContainsNonInclusive(bounds[i], PointAt(slot))}
\* The least point of the intersection of two boxes: two half-open boxes
\* have a point in common exactly when both contain this one
Meet(a, b) == PointBox([i \in Dims |-> Max2(a.min[i], b.min[i])])

\* C12: after init no point is owned by two partitions: for two distinct
\* final boxes A and B no point p has ContainsNonInclusive(A, p) and
\* ContainsNonInclusive(B, p); a point on the face shared by two
\* partitions has one owner.
C12_OneOwner ==
  \A r \in Ranks : pc[r] = "done" =>
    \A i, j \in 1..Len(m_bounds[r]) : i # j =>
      ~(/\ ContainsNonInclusive(m_bounds[r][i], Meet(m_bounds[r][i], m_bounds[r][j]))
        /\ ContainsNonInclusive(m_bounds[r][j], Meet(m_bounds[r][i], m_bounds[r][j])))


\* C13: after init the final boxes cover the domain: every input point of
\* every rank is contained (non-inclusively) in at least one final box.
C13_Covered ==
  \A r \in Ranks : pc[r] = "done" =>
    \A s \in Slots : Owners(m_bounds[r], s) # {}

UnitWeights == \A s \in Slots : adapt[s[1]][s[2]].w = 1
PowerOfTwo(n) == \E e \in 0..n : 2 ^ e = n
\* The number of input points a box owns
Owned(b) == Cardinality({s \in Slots : ContainsNonInclusive(b, PointAt(s))})
\* The number of input points that share a coordinate with a face of some
\* final box, that is with the value of some split
Sharing(bounds) ==
  Cardinality({s \in Slots : \E i \in 1..Len(bounds) : \E d \in Dims :
                 \/ PointAt(s).min[d] = bounds[i].min[d]
                 \/ PointAt(s).min[d] = bounds[i].max[d]})

\* C14: under unit weights and a power-of-two number of ranks R, the number
\* of the N input points owned by each partition differs from N / R by no
\* more than the number of points sharing a median coordinate (stated
\* multiplied by R).
C14_Balanced ==
  \A r \in Ranks : (pc[r] = "done" /\ UnitWeights /\ PowerOfTwo(comm_size)) =>
    \A i \in 1..Len(m_bounds[r]) :
      Abs(comm_size * Owned(m_bounds[r][i]) - Cardinality(Slots))
        <= comm_size * Sharing(m_bounds[r])

\* The bounding box of the points of an adaptor
BoundingBox(a) ==
  MkBox([i \in Dims |-> SetMin({a[k].p[i] : k \in 1..Len(a)})],
        [i \in Dims |-> SetMax({a[k].p[i] : k \in 1..Len(a)})])

\* C15: on a communicator of size 1 with a non-empty local cloud init
\* performs no split and leaves a bounds vector of length 1 whose only box
\* is next_larger of the bounding box of the local points.
C15_SingleRank ==
  (comm_size = 1 /\ pc[1] = "done") =>
    /\ weighted_splits = <<>>
    /\ m_bounds[1] = <<next_larger(BoundingBox(adapt[1]))>>

\* init has returned on one rank that holds several points
C15_Witness ==
  comm_size = 1 /\ pc[1] = "done" /\ Len(adapt[1]) > 1 /\ Len(m_bounds[1]) = 1

\* ------------------------------------------------------------------------
\* Properties of the rendezvous exchange
\* ------------------------------------------------------------------------

\* The sources of rank s whose bound intersects box b, as leaves of a global
\* tree
SourcesWithin(s, b) ==
  {[bound |-> PointBox(xyz[s].source[i]), key |-> <<s, i - 1>>] :
     i \in {j \in 1..Len(xyz[s].source) : BoxIntersects(PointBox(xyz[s].source[j]), b)}}
\* The leaves of the global tree of rank r
GlobalLeaves(r) == LeafValues(global_source_sds[r].h, global_source_sds[r].ret)
\* The target bound of rank r scaled by the expansion factor
Expanded(r) ==
  scale(BoundingBox([k \in 1..Len(xyz[r].target) |-> [p |-> xyz[r].target[k]]]),
        bbox_scale_num, bbox_scale_den)

\* C16: after the exchange completes the global tree of rank r holds
\* exactly one leaf (bound, s, id) for every source (bound, id) of any rank
\* s whose bound intersects the target bound of r scaled by the expansion
\* factor, and no other leaf.
C16_GlobalHoldsExpanded ==
  aborted = "" =>
    \A r \in World :
      at[r] = "done" =>
        /\ Range(GlobalLeaves(r)) = UNION {SourcesWithin(s, Expanded(r)) : s \in World}
        /\ NoDuplicates(GlobalLeaves(r))
\* a rank has finished on an unbuffered transport with a source of another
\* rank in its global tree, while some source of that rank was left out
C16_Witness ==
  \E r \in World :
    /\ at[r] = "done" /\ transport = "unbuffered"
    /\ \E s \in World \ {r} :
         /\ \E v \in Range(GlobalLeaves(r)) : v.key[1] = s
         /\ Cardinality(SourcesWithin(s, Expanded(r))) < Len(xyz[s].source)

\* Rank me is in wait() on its send to rank k, and rank k has left its
\* first loop without posting a receive from me: the request of me can no
\* longer complete
WaitsInVain(me, k) ==
  /\ at[me] = "wait_send"
  /\ k = SetMin(KeysAfter(send_requests[me], loop_rank[me]))
  /\ send_requests[me][k] = "posted"
  /\ at[k] \notin {"build", "gather", "plan_recv"}
  /\ me \notin DOMAIN recv_requests[k]

\* C17: the exchange is deadlock-free on an unbuffered transport, where a
\* send completes only once the destination has posted the matching
\* receive: no rank is ever in a wait that cannot return, so every rank
\* finishes the exchange.
C17_NoWaitInVain ==
  (aborted = "" /\ transport = "unbuffered") =>
    \A me \in World : \A k \in World : ~WaitsInVain(me, k)

\* C18: on every rank all receives of the exchange are posted before any
\* send of that rank is posted, and all receives are waited on before any
\* send is waited on.
C18_ReceivesFirst ==
  \A r \in World :
    \A i, j \in 1..Len(history[r]) :
      i < j =>
        /\ ~(history[r][i].call = "isend" /\ history[r][j].call = "irecv")
        /\ ~(history[r][i].call = "wait_send" /\ history[r][j].call = "wait_recv")
\* a rank has finished after posting and waiting on several receives and
\* several sends
C18_Witness ==
  \E r \in World :
    /\ at[r] = "done"
    /\ \A c \in {"irecv", "isend", "wait_recv", "wait_send"} :
         Cardinality({i \in 1..Len(history[r]) : history[r][i].call = c}) > 1

\* ------------------------------------------------------------------------
\* Properties of UniqueMap
\* ------------------------------------------------------------------------

\* Two vectors are equal under operator==
VectorEquals(a, b) ==
  Len(a) = Len(b) /\ \A k \in 1..Len(a) : ArrayEquals(a[k], b[k])

\* C19: for every input sequence V, after setup(V),
\* expand_to_non_unique(reduce_to_unique(V)) equals V.
C19_RoundTrip ==
  (um_at.step = "expanded" /\ um_at.vin = vals) => VectorEquals(expanded_vals, vals)
\* the round trip of a vector that repeats a value other than zero, through
\* a map that had been set up before and an output vector that had been
\* used before
C19_Witness ==
  /\ um_at.step = "expanded" /\ um_at.vin = vals /\ um_at.setups > 1
  /\ \E i, j \in 1..Len(vals) : i < j /\ vals[i] = vals[j] /\ vals[i][1] = PlusOne
  /\ \E k \in 1..Len(vals) : vals[k] # vals[1]

\* C20: after setup(V), also when setup is called again on a map already
\* used, the number of entries of unique_idx plus the number of entries of
\* non_unique_map equals the length of V.
C20_TotalIsLength ==
  um_at.step # "new" => /\ num_total = Len(vals)
                        /\ Len(unique_idx_) + Len(non_unique_map_) = Len(vals)
\* a map that was set up and used is set up a second time, with a vector
\* holding duplicates
C20_Witness ==
  /\ um_at.step = "setup" /\ um_at.setups = 2
  /\ Len(non_unique_map_) > 0 /\ Len(unique_idx_) > 1
  /\ Len(unique_vals) > 0

\* ------------------------------------------------------------------------
\* Properties of the containers, boxes and predicates
\* ------------------------------------------------------------------------

\* C21: after any sequence of insert and emplace calls on a
\* TruncatedMultiSet of capacity K its size is at most K, and its elements
\* are the min(K, n) smallest-key elements of the n inserted so far, held
\* in non-decreasing key order.
C21_SmallestKept ==
  /\ Len(data_set) <= count
  /\ Len(data_set) = Min2(count, Len(inserted))
  /\ Range(data_set) \subseteq Range(inserted)
  /\ NoDuplicates(data_set)
  /\ \A i, j \in 1..Len(data_set) : i < j => data_set[i].dist <= data_set[j].dist
  /\ \A e \in Range(inserted) \ Range(data_set) :
       \A k \in 1..Len(data_set) : data_set[k].dist <= e.dist
\* a set of capacity 2 or more that has dropped an element with the key of
\* one it keeps, and has taken in a smaller key after it was full
C21_Witness ==
  /\ count >= 2 /\ Len(inserted) > count
  /\ \E e \in Range(inserted) \ Range(data_set) : e.dist = data_set[Len(data_set)].dist
  /\ \E k \in 1..Len(data_set) :
       data_set[k].id > count /\ data_set[k].dist < data_set[Len(data_set)].dist

\* C22: on every set of final boxes RCB produces, Box::less is irreflexive,
\* asymmetric and transitive, and no two distinct final boxes are
\* equivalent under it (neither less than the other).
C22_LessOrdersFinalBoxes ==
  LET F == Range(offered)
  IN  /\ \A a \in F : ~BoxLess(a, a)
      /\ \A a, b \in F : BoxLess(a, b) => ~BoxLess(b, a)
      /\ \A a, b, c \in F : BoxLess(a, b) /\ BoxLess(b, c) => BoxLess(a, c)
      /\ \A a, b \in F : a # b => BoxLess(a, b) \/ BoxLess(b, a)

C24_NearestDeterministic ==
  (Asking /\ answer.kind = "Nearest") =>
    /\ aborted = ""
    /\ \A ub \in UBOutcomes(answer.K) :
         \E t \in {RTreeQueryNearest(nodes, root, answer.bound, answer.K, ub)} :
           t.err = "" /\ t.out = answer.out /\ t.count = answer.count

\* C25: no sequence of insert and remove calls, a remove on an empty tree
\* and an insert after the last stored value was removed included, makes a
\* structural assertion fail: every page met during a descent has
\* children, every child of the page searched by remove is a leaf, and the
\* size bounds of a split hold.
C25_NoAssertionFails == aborted = ""

\* C26: the insertion descent chooses, among the children of a page, the
\* child whose bound needs the smallest area increase to hold the new
\* bound; among children with the same increase the one with the smaller
\* area; among those the one with fewer children.
C26_BestFitLexicographic ==
  \A p \in PagesOf(nodes, root) : \A k \in 1..Len(input) :
    (NodeSize(nodes, p) > 0 /\ ~isLeaf(nodes, front(nodes, p))) =>
      \E c \in {find_best_fit_in_node(nodes, input[k], p).ret} :
        /\ c # 0
        /\ \A d \in Range(nodes[p].kids) :
             \/ IncreaseToHold(getBound(nodes, c), input[k])
                  < IncreaseToHold(getBound(nodes, d), input[k])
             \/ /\ IncreaseToHold(getBound(nodes, c), input[k])
                     = IncreaseToHold(getBound(nodes, d), input[k])
                /\ \/ NodeArea(nodes, c) < NodeArea(nodes, d)
                   \/ /\ NodeArea(nodes, c) = NodeArea(nodes, d)
                      /\ NodeSize(nodes, c) <= NodeSize(nodes, d)

\* C27: pruning is sound for every predicate of the catalog: when a leaf
\* bound passes the leaf test, every bound that contains it passes the
\* node test.
C27_PruningSound ==
  (Len(probe) = 1 /\ probe[1].is_leaf /\ probe[1].result) =>
    \A n \in GridBoxes :
      BoxContains(n, probe[1].bound) =>
        spatial_predicate(pred[1].kind, pred[1].qb, n, FALSE)
\* a leaf bound that passed the leaf test of CoveredBy and lies in a larger
\* bound that would fail the leaf test
C27_Witness ==
  /\ Len(probe) = 1 /\ probe[1].is_leaf /\ probe[1].result
  /\ pred[1].kind = "CoveredBy"
  /\ \E n \in GridBoxes :
       /\ BoxContains(n, probe[1].bound) /\ n # probe[1].bound
       /\ ~spatial_predicate(pred[1].kind, pred[1].qb, n, TRUE)

\* C28: for every page with at least two children pick_seeds of either
\* strategy returns two distinct children of the page, also when all
\* children have the same bound or the bound of the page has no extent in
\* a dimension.
C28_SeedsDistinct ==
  NodeSize(nodes, root) >= 2 =>
    \E s \in {pick_seeds(strategy, nodes, root)} :
      /\ s.err = ""
      /\ s.first # s.second
      /\ {s.first, s.second} \subseteq Range(nodes[root].kids)

\* The rank counts of the boxes that stay pending when each box of ns is
\* split into floor(n/2) and n - floor(n/2) ranks and the sub-boxes of one
\* rank become final
RECURSIVE Halved(_, _)
Halved(ns, i) ==
  IF i > Len(ns) THEN <<>>
  ELSE SelectSeq(<<ns[i] \div 2, ns[i] - ns[i] \div 2>>, LAMBDA n : n # 1) \o Halved(ns, i + 1)

RECURSIVE PendingAfter(_, _)
PendingAfter(R, k) == IF k = 0 THEN <<R>> ELSE Halved(PendingAfter(R, k - 1), 1)

RECURSIVE SumRanks(_, _)
SumRanks(work, i) == IF i = 0 THEN 0 ELSE work[i].n + SumRanks(work, i - 1)

RoundStart == aborted = "" /\ \A r \in Ranks : pc[r] = "median"

CeilLog2(n) == CHOOSE e \in 0..n : 2 ^ e >= n /\ \A d \in 0..(e - 1) : 2 ^ d < n

\* The largest rank count of a pending box, 0 when none is pending
MaxPending(work) == SetMax({0} \cup {work[k].n : k \in 1..Len(work)})

\* What is left of init: the rounds of the while loop still allowed, then
\* the steps the ranks have left in the part of init they are in
StepsLeft(r) ==
  CASE pc[r] = "build" -> 2
    [] pc[r] = "gather" -> 1
    [] pc[r] = "median" -> 1
    [] pc[r] = "reduce" -> 0
    [] pc[r] = "copy" -> 1
    [] pc[r] = "done" -> 0

RECURSIVE SumSteps(_)
SumSteps(r) == IF r = 0 THEN 0 ELSE StepsLeft(r) + SumSteps(r - 1)

PartsLeft ==
  IF \E r \in Ranks : pc[r] \in {"build", "gather"} THEN CeilLog2(comm_size) + 2
  ELSE IF \E r \in Ranks : pc[r] \in {"copy", "done"} THEN 0
  ELSE CeilLog2(comm_size) + 1 - rounds

Variant ==
  PartsLeft * (2 * comm_size + 2) + SumSteps(comm_size) + (IF aborted = "" THEN 1 ELSE 0)

C39_ZeroNearestCompletes ==
  (Asking /\ answer.kind = "Nearest" /\ answer.K = 0 /\ root # 0) =>
    /\ aborted = ""
    /\ answer.out = <<>> /\ answer.count = 0
    /\ \A ub \in UBOutcomes(0) : RTreeQueryNearest(nodes, root, answer.bound, 0, ub).err = ""

\* C32: in every round, on every rank and for every pending box, the
\* median index is a position of the rank's sorted list of points contained
\* in the box; a rank with no point in a pending box reads nothing out of
\* range.
C32_MedianIndexValid ==
  /\ aborted # "read past contained_weights"
  /\ \A r \in Ranks : pc[r] = "median" =>
       \A k \in 1..Len(boxes_to_split) :
         \E points \in {SortByCenter(contained_points(rtree[r], boxes_to_split[k].box),
                                      longest_dimension(boxes_to_split[k].box), 1, <<>>)} :
           upper_bound(contained_weights(adapt[r], points),
                       small_partition(boxes_to_split[k].n), boxes_to_split[k].n)
             < Len(points)

\* The all_reduce calls rank r has made: one in every completed round and
\* one more when it waits in the all_reduce of the current round
Calls(r) == rounds + (IF pc[r] = "reduce" THEN 1 ELSE 0)

\* C31: all ranks stay in lockstep through init: every rank runs the same
\* number of rounds, hands all_reduce a vector with one entry per pending
\* box in every round, and finishes with the same bounds vector as the
\* others; no rank is left in a round that another rank never completes.
C31_Lockstep ==
  /\ \A r \in Ranks : pc[r] = "reduce" => Len(local_split_list[r]) = Len(boxes_to_split)
  /\ \A r, s \in Ranks : (pc[r] = "done" /\ pc[s] = "done") => m_bounds[r] = m_bounds[s]
  /\ (aborted # "" /\ rounds > 0) => \A r, s \in Ranks : Calls(r) = Calls(s)

\* Rank r has left the two loops that post its receives and its sends
Planned(r) == at[r] \in {"wait_recv", "wait_send", "done"}

\* C33: the sends and receives of the rendezvous pair up: rank s posts a
\* send to rank r if and only if rank r posts a receive from rank s, and
\* when all ranks have finished every message sent has been received by a
\* receive posted for it.
C33_SendsPairWithReceives ==
  /\ \A s, r \in World :
       (Planned(s) /\ Planned(r)) =>
         (r \in DOMAIN send_requests[s] <=> s \in DOMAIN recv_requests[r])
  /\ (\A r \in World : at[r] = "done") =>
       \A s, r \in World :
         r \in DOMAIN send_requests[s] =>
           (s \in DOMAIN recv_requests[r] /\ recv_requests[r][s] = "complete")

\* The calls `call` that rank me has made with peer k
CallsOf(me, call, k) ==
  {i \in 1..Len(history[me]) : history[me][i] = [call |-> call, peer |-> k]}

\* The records of rank k in the global tree of rank me
RecordsFrom(me, k) ==
  {v \in Range(LeafValues(global_source_sds[me].h, global_source_sds[me].ret)) :
     v.key[1] = k}

\* C34: a receive buffer is read, its records going into the global
\* R-tree, only after the wait on its request has returned, so that the
\* tree holds the records sent and no others; and a send buffer that has
\* been posted is neither modified nor released afterwards, up to the
\* return of the wait on the send and beyond.
C34_BuffersAfterWait ==
  /\ [](\A me \in World : \A k \in World :
          /\ CallsOf(me, "wait_recv", k) # {} =>
               /\ k \in DOMAIN recv_requests[me]
               /\ recv_requests[me][k] = "complete"
               /\ RecordsFrom(me, k)
                    = {[bound |-> sent.bound, key |-> <<k, sent.key>>] :
                         sent \in Range(send_to_ranks[k][me])}
          /\ CallsOf(me, "wait_recv", k) = {} => RecordsFrom(me, k) = {})
  /\ [][\A s \in World : \A r \in DOMAIN send_to_ranks[s] :
          /\ r \in DOMAIN send_to_ranks'[s]
          /\ send_to_ranks'[s][r] = send_to_ranks[s][r]]_vars

C34_Witness ==
  \E me \in World : \E k \in World \ {me} :
    /\ at[me] = "done" /\ at[k] = "done"
    /\ me \in DOMAIN send_to_ranks[k] /\ send_to_ranks[k][me] # <<>>
    /\ CallsOf(me, "wait_recv", k) # {}
    /\ CallsOf(k, "wait_send", me) # {}
    /\ RecordsFrom(me, k) # {}

\* C35: after any sequence of inserts and removes the Exhaustive index
\* stores exactly the values inserted and not removed since, each once, and
\* size() is their number
C35_ExhaustiveHoldsExpected ==
  aborted = "" =>
    /\ \A v \in Range(ex_values) \cup expected :
         Count(ex_values, v) = IF v \in expected THEN 1 ELSE 0
    /\ Len(ex_values) = Cardinality(expected)

\* C36: after any sequence of inserts and removes every child of a page of
\* the tree names that page as its parent, and the root names no parent
C36_ParentLinks ==
  /\ \A p \in TreePages : \A k \in 1..NodeSize(nodes, p) :
       getParent(nodes, nodes[p].kids[k]) = p
  /\ root # 0 => ~hasParent(nodes, root)
\* A remove dissolved pages of a tree of several page levels, and a page
\* that stood in the tree before the remove is the root of the tree it left
C36_Witness ==
  /\ RemovedStored
  /\ Dissolved # {}
  /\ root \in last.pages
  /\ NodeSize(nodes, root) > 0
  /\ \A p \in TreePages : \A k \in 1..NodeSize(nodes, p) :
       getParent(nodes, nodes[p].kids[k]) = p

\* C37: after any sequence of inserts, removes and clears, empty() returns
\* true exactly when the tree holds no value
C37_EmptyIffNoValue ==
  aborted = "" => (RTreeEmpty(root) <=> Stored = <<>>)

\* C38: after any sequence of inserts and removes, size() returns the number
\* of values stored in the tree
C38_SizeIsStored ==
  aborted = "" => RTreeSize(nodes, root) = Len(Stored)

============================================================================
